---------------------------- MODULE Spec2Model ----------------------------
(***************************************************************************)
(* Report builder (src/builder.js): the builder's configuration state and  *)
(* its handlers, the artifact compiler, and the ReportRenderer join engine *)
(* that the compiler embeds in the generated artifact.                     *)
(*                                                                         *)
(* Specifications:                                                         *)
(*   SpecJoin   ReportRenderer.buildNodes / collectRows on bounded inputs  *)
(*   SpecMatch  getRelationshipValue / valuesMatch on bounded inputs       *)
(*   Spec       the builder: handlers over the configuration state         *)
(***************************************************************************)
EXTENDS Integers, Sequences, FiniteSets, TLC

(***************************************************************************)
(* Bounds of the model.                                                    *)
(***************************************************************************)
\* longest per-entity-type record array handed to the renderer
MaxRecords == 2
\* longest relationships array handed to the renderer
MaxRels == 2

(***************************************************************************)
(* JavaScript values. A value is a pair of its type tag and its printed    *)
(* form, so that the number 1 and the string "1" are different values.     *)
(***************************************************************************)
Undefined == [t |-> "undefined", v |-> ""]
Null == [t |-> "null", v |-> ""]
Num(s) == [t |-> "number", v |-> s]
Str(s) == [t |-> "string", v |-> s]
Bool(s) == [t |-> "boolean", v |-> s]

JSValues ==
  { Undefined, Null, Num("0"), Num("1"), Num("2"), Str(""), Str("0"), Str("1"),
    Str("2"), Bool("true"), Bool("false") }

\* x === y on primitive values
StrictEquals(x, y) == x.t = y.t /\ x.v = y.v

\* x == y on primitive values: null and undefined are equal to each other,
\* and a number equals the string that prints it (the coercion === avoids)
LooseEquals(x, y) ==
  \/ StrictEquals(x, y)
  \/ x.t \in {"undefined", "null"} /\ y.t \in {"undefined", "null"}
  \/ /\ {x.t, y.t} = {"number", "string"}
     /\ x.v = y.v
     /\ x.v # ""

\* undefined or null
IsNullish(x) == x.t \in {"undefined", "null"}

(***************************************************************************)
(* Entity records as the GraphQL API returns them.                         *)
(*   basic      direct properties, Undefined when the key is absent        *)
(*   tags       [present, items: sequence of [key, value]]                 *)
(*   properties [present, items: sequence of [name, value]]                *)
(*   namespaces [present, items: sequence of [name, properties]]           *)
(***************************************************************************)
BasicFieldNames == {"id", "aId"}

Absent == [present |-> FALSE, items |-> <<>>]
Items(s) == [present |-> TRUE, items |-> s]

Entity(id, aId, tags, properties, namespaces) ==
  [ basic |-> [f \in BasicFieldNames |-> IF f = "id" THEN id ELSE aId],
    tags |-> tags, properties |-> properties, namespaces |-> namespaces ]

\* Array.prototype.find on a list of {key, value}: the first index whose key
\* is the one sought, 0 when there is none
IndexOfKey(items, key) ==
  LET I == {i \in 1..Len(items) : items[i].key = key}
  IN  IF I = {} THEN 0 ELSE CHOOSE i \in I : \A j \in I : i <= j

\* Array.prototype.find on a list of {name, ...}
IndexOfName(items, name) ==
  LET I == {i \in 1..Len(items) : items[i].name = name}
  IN  IF I = {} THEN 0 ELSE CHOOSE i \in I : \A j \in I : i <= j

getTagValue(tags, key) ==
  IF ~tags.present THEN Null
  ELSE LET i == IndexOfKey(tags.items, key)
       IN  IF i = 0 THEN Undefined ELSE tags.items[i].value

getPropertyValue(properties, name) ==
  IF ~properties.present THEN Null
  ELSE LET i == IndexOfName(properties.items, name)
       IN  IF i = 0 THEN Undefined ELSE properties.items[i].value

getNamespaceProperty(entity, nsName, propName) ==
  IF ~entity.namespaces.present THEN Null
  ELSE LET i == IndexOfName(entity.namespaces.items, nsName)
       IN  IF i = 0 THEN Null
           ELSE IF ~entity.namespaces.items[i].properties.present THEN Null
           ELSE LET ps == entity.namespaces.items[i].properties.items
                    j == IndexOfName(ps, propName)
                IN  IF j = 0 THEN Undefined ELSE ps[j].value

(***************************************************************************)
(* Field locations. NoLocation is a relationship without a location.       *)
(***************************************************************************)
NoLocation == ""
NamespaceLocations == {"namespace:ns1"}

\* loc.split(':')[1]
NamespaceOf(loc) == IF loc = "namespace:ns1" THEN "ns1" ELSE ""

\* entity[fieldName]
BasicValue(entity, fieldName) ==
  IF fieldName \in DOMAIN entity.basic THEN entity.basic[fieldName] ELSE Undefined

\* the probe of getRelationshipValue when the location is not recognised:
\* basic, then property, then tag, then the first namespace holding the name
RECURSIVE AnyNamespaceValue(_, _, _)
AnyNamespaceValue(nss, i, fieldName) ==
  IF i > Len(nss) THEN Undefined
  ELSE LET ps == IF nss[i].properties.present THEN nss[i].properties.items ELSE <<>>
           j == IndexOfName(ps, fieldName)
       IN  IF j # 0 THEN ps[j].value ELSE AnyNamespaceValue(nss, i + 1, fieldName)

getRelationshipValue(entity, fieldName, location) ==
  IF fieldName = "" THEN Undefined
  ELSE IF location = "basic" THEN BasicValue(entity, fieldName)
  ELSE IF location = "tag" THEN getTagValue(entity.tags, fieldName)
  ELSE IF location = "property" THEN getPropertyValue(entity.properties, fieldName)
  ELSE IF location \in NamespaceLocations
    THEN getNamespaceProperty(entity, NamespaceOf(location), fieldName)
  ELSE IF ~IsNullish(BasicValue(entity, fieldName)) THEN BasicValue(entity, fieldName)
  ELSE IF ~IsNullish(getPropertyValue(entity.properties, fieldName))
    THEN getPropertyValue(entity.properties, fieldName)
  ELSE IF ~IsNullish(getTagValue(entity.tags, fieldName))
    THEN getTagValue(entity.tags, fieldName)
  ELSE IF entity.namespaces.present
    THEN AnyNamespaceValue(entity.namespaces.items, 1, fieldName)
  ELSE Undefined

\* a plausible slip: == in place of ===, and no guard for missing values
valuesMatchCoercing(parentValue, childValue) == LooseEquals(parentValue, childValue)

valuesMatch(parentValue, childValue) ==
  IF IsNullish(parentValue) THEN FALSE
  ELSE IF IsNullish(childValue) THEN FALSE
  ELSE StrictEquals(parentValue, childValue)


(***************************************************************************)
(* ReportRenderer: the hierarchical join (buildNodes) and its flattening   *)
(* (collectRows). config.entityTypes, config.relationships and entityData  *)
(* are passed explicitly.                                                  *)
(***************************************************************************)
UndefinedName == "undefined"

\* this.entityTypes[depth], depth counted from 0
TypeAt(entityTypes, depth) ==
  IF depth + 1 <= Len(entityTypes) THEN entityTypes[depth + 1] ELSE UndefinedName

\* this.entityData[type] || []
DataOf(entityData, type) ==
  IF type \in DOMAIN entityData THEN entityData[type] ELSE <<>>

\* a plausible slip: find in place of filter keeps the first match only
matchingChildrenFirstOnly(rel, entity, entityData) ==
  LET all == SelectSeq(DataOf(entityData, rel.to),
                LAMBDA child :
                  valuesMatch(getRelationshipValue(entity, rel.fromField, rel.fromLocation),
                              getRelationshipValue(child, rel.toField, rel.toLocation)))
  IN  IF all = <<>> THEN <<>> ELSE <<Head(all)>>

\* the filter of buildNode: the records of entityData[rel.to] that match
matchingChildren(rel, entity, entityData) ==
  SelectSeq(DataOf(entityData, rel.to),
    LAMBDA child :
      valuesMatch(getRelationshipValue(entity, rel.fromField, rel.fromLocation),
                  getRelationshipValue(child, rel.toField, rel.toLocation)))

RECURSIVE buildNode(_, _, _, _, _)
buildNode(entityTypes, relationships, entityData, depth, entity) ==
  LET children ==
        IF depth < Len(relationships)
          THEN matchingChildren(relationships[depth + 1], entity, entityData)
          ELSE <<>>
  IN  [ entityType |-> TypeAt(entityTypes, depth),
        entity |-> entity,
        children |-> [i \in 1..Len(children) |->
                        buildNode(entityTypes, relationships, entityData,
                                  depth + 1, children[i])] ]

buildNodes(entityTypes, relationships, entityData) ==
  IF Len(entityTypes) = 0 THEN <<>>
  ELSE LET roots == DataOf(entityData, entityTypes[1])
       IN  [i \in 1..Len(roots) |->
              buildNode(entityTypes, relationships, entityData, 0, roots[i])]

\* A row is a sequence of cells; a cell is <<>> (null) or <<node>>.
NullCell == <<>>
Cell(node) == <<node>>

RECURSIVE Concat(_)
Concat(ss) == IF ss = <<>> THEN <<>> ELSE Head(ss) \o Concat(Tail(ss))

\* this.entityTypes.length || 1
DepthCount(entityTypes) == IF Len(entityTypes) = 0 THEN 1 ELSE Len(entityTypes)

\* the traverse closure of collectRows; returns the rows it pushes, in order
RECURSIVE traverse(_, _, _, _)
traverse(depthCount, depth, node, currentRow) ==
  LET nextRow == [currentRow EXCEPT ![depth + 1] = Cell(node)]
  IN  IF Len(node.children) = 0 \/ depth = depthCount - 1
        THEN <<nextRow>>
        ELSE Concat([i \in 1..Len(node.children) |->
                       traverse(depthCount, depth + 1, node.children[i], nextRow)])

\* a traversal that also pushes a row at every interior node
RECURSIVE traverseEveryNode(_, _, _, _)
traverseEveryNode(depthCount, depth, node, currentRow) ==
  LET nextRow == [currentRow EXCEPT ![depth + 1] = Cell(node)]
  IN  IF Len(node.children) = 0 \/ depth = depthCount - 1
        THEN <<nextRow>>
        ELSE <<nextRow>> \o
             Concat([i \in 1..Len(node.children) |->
                       traverseEveryNode(depthCount, depth + 1, node.children[i], nextRow)])

\* a traversal that pushes a row only for a branch reaching the last level
RECURSIVE traverseFullPaths(_, _, _, _)
traverseFullPaths(depthCount, depth, node, currentRow) ==
  LET nextRow == [currentRow EXCEPT ![depth + 1] = Cell(node)]
  IN  IF depth = depthCount - 1 THEN <<nextRow>>
      ELSE Concat([i \in 1..Len(node.children) |->
                     traverseFullPaths(depthCount, depth + 1, node.children[i], nextRow)])

\* the row { entity } of the fallback branch: it has no entityType, no children
FallbackCell(entity) ==
  Cell([entityType |-> UndefinedName, entity |-> entity, children |-> <<>>])

SeedRow(depthCount) == [i \in 1..depthCount |-> NullCell]

FallbackRows(entityTypes, entityData, nodes) ==
  IF Len(nodes) = 0 /\ Len(entityTypes) # 0
    THEN LET roots == DataOf(entityData, entityTypes[1])
         IN  [i \in 1..Len(roots) |->
                [SeedRow(DepthCount(entityTypes)) EXCEPT ![1] = FallbackCell(roots[i])]]
    ELSE <<>>

\* a plausible slip: a row for every node visited, not for every branch
collectRowsEveryNode(entityTypes, relationships, entityData) ==
  LET nodes == buildNodes(entityTypes, relationships, entityData)
      depthCount == DepthCount(entityTypes)
  IN  Concat([i \in 1..Len(nodes) |->
                traverseEveryNode(depthCount, 0, nodes[i], SeedRow(depthCount))])
      \o FallbackRows(entityTypes, entityData, nodes)

\* a plausible slip: an inner join, which drops a root without children
collectRowsFullPaths(entityTypes, relationships, entityData) ==
  LET nodes == buildNodes(entityTypes, relationships, entityData)
      depthCount == DepthCount(entityTypes)
  IN  Concat([i \in 1..Len(nodes) |->
                traverseFullPaths(depthCount, 0, nodes[i], SeedRow(depthCount))])
      \o FallbackRows(entityTypes, entityData, nodes)

collectRows(entityTypes, relationships, entityData) ==
  LET nodes == buildNodes(entityTypes, relationships, entityData)
      depthCount == DepthCount(entityTypes)
  IN  Concat([i \in 1..Len(nodes) |->
                traverse(depthCount, 0, nodes[i], SeedRow(depthCount))])
      \o FallbackRows(entityTypes, entityData, nodes)


(***************************************************************************)
(* Inputs of the renderer specifications.                                  *)
(***************************************************************************)
\* {id: 1, aId: 1}
E1 == Entity(Num("1"), Num("1"), Absent, Absent, Absent)
\* {id: 2, aId: "1"}: the string "1", not the number
E2 == Entity(Num("2"), Str("1"), Absent, Absent, Absent)
\* {id: null, tags: [{key: "id", value: 1}], properties: [{name: "aId", value: 1}]}
E3 == Entity(Null, Undefined,
             Items(<<[key |-> "id", value |-> Num("1")]>>),
             Items(<<[name |-> "aId", value |-> Num("1")]>>), Absent)
\* {id: "1", namespaces: [{name: "ns1", properties: [{name: "aId", value: 1}]},
\*                         {name: "ns2"}]}
E4 == Entity(Str("1"), Undefined, Absent, Items(<<>>),
             Items(<<[name |-> "ns1",
                      properties |-> Items(<<[name |-> "aId", value |-> Num("1")]>>)],
                     [name |-> "ns2", properties |-> Absent]>>))

EntityPool == {E1, E2, E3}
MatchEntityPool == {E1, E2, E3, E4}

Relationship(from, to, fromField, toField, fromLocation, toLocation) ==
  [ from |-> from, to |-> to, fromField |-> fromField, toField |-> toField,
    fromLocation |-> fromLocation, toLocation |-> toLocation ]

RelPool ==
  { Relationship("A", "B", "id", "aId", "basic", "basic"),
    Relationship("A", "B", "id", "aId", "tag", "property"),
    Relationship("B", "C", "id", "aId", "basic", "basic"),
    Relationship("B", "A", "aId", "id", NoLocation, NoLocation) }

MatchRelPool ==
  RelPool \cup
  { Relationship("A", "B", "id", "aId", "basic", "namespace:ns1"),
    Relationship("A", "B", "id", "", "basic", "basic"),
    Relationship("A", "B", "aId", "aId", NoLocation, NoLocation),
    Relationship("A", "B", "aId", "aId", "property", "tag") }

\* the sequences over S of length at most n
SeqsUpTo(S, n) == UNION {[1..k -> S] : k \in 0..n}

RenderTypes == {"A", "B", "C"}
TypeLists == {<<>>, <<"A">>, <<"A", "B">>, <<"A", "B", "C">>}
RelLists == SeqsUpTo(RelPool, MaxRels)
RecordLists == SeqsUpTo(EntityPool, MaxRecords)

VARIABLES
  \* ReportRenderer inputs: config.entityTypes, config.relationships, entityData
  rEntityTypes, rRelationships, rEntityData,
  \* "config": constructed; "built": buildNodes returned; "rows": collectRows returned
  rPhase,
  \* the results
  rNodes, rRows,
  \* a call of valuesMatch: the two join values, whether it ran, its result
  mParent, mChild, mCalled, mResult

joinVars == <<rEntityTypes, rRelationships, rEntityData, rPhase, rNodes, rRows>>
matchVars == <<mParent, mChild, mCalled, mResult>>

JoinIdle ==
  /\ rEntityTypes = <<>>
  /\ rRelationships = <<>>
  /\ rEntityData = [t \in RenderTypes |-> <<>>]
  /\ rPhase = "config"
  /\ rNodes = <<>>
  /\ rRows = <<>>

MatchIdle ==
  /\ mParent = Undefined
  /\ mChild = Undefined
  /\ mCalled = FALSE
  /\ mResult = FALSE

JoinInit ==
  /\ rEntityTypes \in TypeLists
  /\ rRelationships \in RelLists
  /\ rEntityData \in [RenderTypes -> RecordLists]
  /\ rPhase = "config"
  /\ rNodes = <<>>
  /\ rRows = <<>>

\* renderHierarchy / renderCards: const nodes = this.buildNodes()
BuildNodes ==
  /\ rPhase = "config"
  /\ rNodes' = buildNodes(rEntityTypes, rRelationships, rEntityData)
  /\ rPhase' = "built"
  /\ UNCHANGED <<rEntityTypes, rRelationships, rEntityData, rRows>>

\* renderTable / renderTimeline: const rows = this.collectRows()
CollectRows ==
  /\ rPhase \in {"config", "built"}
  /\ rNodes' = buildNodes(rEntityTypes, rRelationships, rEntityData)
  /\ rRows' = collectRows(rEntityTypes, rRelationships, rEntityData)
  /\ rPhase' = "rows"
  /\ UNCHANGED <<rEntityTypes, rRelationships, rEntityData>>

\* the filter callback of buildNode on one parent and one candidate child
ReadJoinValues ==
  /\ ~mCalled
  /\ \E parent \in MatchEntityPool, child \in MatchEntityPool, rel \in MatchRelPool :
       /\ mParent' = getRelationshipValue(parent, rel.fromField, rel.fromLocation)
       /\ mChild' = getRelationshipValue(child, rel.toField, rel.toLocation)
  /\ UNCHANGED <<mCalled, mResult>>

\* any two values as join values
SetJoinValues ==
  /\ ~mCalled
  /\ mParent' \in JSValues
  /\ mChild' \in JSValues
  /\ UNCHANGED <<mCalled, mResult>>

ValuesMatch ==
  /\ ~mCalled
  /\ mResult' = valuesMatch(mParent, mChild)
  /\ mCalled' = TRUE
  /\ UNCHANGED <<mParent, mChild>>

(***************************************************************************)
(* The report builder: its module-level state (builder.js 28-44) and its   *)
(* event handlers.                                                         *)
(***************************************************************************)

\* CONFIG (builder.js 4-23)
NODE_DRAG_PADDING == 8
NODE_BASE_X_OFFSET == 80
NODE_X_SPACING == 220
MAX_TITLE_LENGTH == 200
MAX_DESCRIPTION_LENGTH == 1000
UNDO_MAX_SIZE == 50

\* bounds of the exploration: the history entries a session may hold below
\* its pointer before toggleEntityType is offered again, in a session on the
\* relationship chain and in a session up to compilation
MaxChainHistory == 3
MaxCompileHistory == 2

\* ---- ordered objects: a JavaScript object is a sequence of key/value
\* ---- entries in insertion order
ObjHas(obj, k) == \E i \in 1..Len(obj) : obj[i].key = k
ObjGet(obj, k) == obj[CHOOSE i \in 1..Len(obj) : obj[i].key = k].value
ObjSet(obj, k, v) ==
  IF ObjHas(obj, k)
  THEN [i \in 1..Len(obj) |-> IF obj[i].key = k THEN [key |-> k, value |-> v] ELSE obj[i]]
  ELSE Append(obj, [key |-> k, value |-> v])
ObjDelete(obj, k) ==
  LET Keep(e) == e.key # k IN SelectSeq(obj, Keep)

Range(s) == {s[i] : i \in 1..Len(s)}

\* ---- the loaded schema: three entity types, in schema.entityTypes order.
\* A and B share the basic fields name and entityId, B and C share the tag
\* zone, A and C share nothing, and C has no basic field.
Types == {"A", "B", "C"}

SchemaEntity(name) ==
  CASE name = "A" -> [basic |-> <<"name", "entityId">>, tags |-> <<>>,
                      properties |-> <<>>]
    [] name = "B" -> [basic |-> <<"entityId", "name">>, tags |-> <<"zone">>,
                      properties |-> <<>>]
    [] OTHER      -> [basic |-> <<>>, tags |-> <<"zone">>, properties |-> <<>>]

\* schema.entityTypes.find(et => et.name === name) found an entity
HasEntity(name) == name \in Types

FieldMetas(names, location) ==
  [i \in 1..Len(names) |-> [name |-> names[i], location |-> location]]

\* the schema above has no namespaces, so that part of the list is empty
getAllFields(name) ==
  IF ~HasEntity(name) THEN <<>>
  ELSE LET fields == SchemaEntity(name) IN
       FieldMetas(fields.basic, "basic") \o FieldMetas(fields.tags, "tag")
         \o FieldMetas(fields.properties, "property")

resolveFieldLocation(entityTypeName, fieldName) ==
  IF ~HasEntity(entityTypeName) THEN "basic"
  ELSE LET fields == SchemaEntity(entityTypeName) IN
       IF fieldName \in Range(fields.basic) THEN "basic"
       ELSE IF fieldName \in Range(fields.tags) THEN "tag"
       ELSE IF fieldName \in Range(fields.properties) THEN "property"
       ELSE "basic"

\* map2.get(name): the first location of the name
FirstLocation(fields, name) ==
  fields[CHOOSE j \in 1..Len(fields) :
           /\ fields[j].name = name
           /\ \A k \in 1..(j - 1) : fields[k].name # name].location

CommonOf(kept, fields2) ==
  [i \in 1..Len(kept) |->
     [name |-> kept[i].name, fromLocation |-> kept[i].location,
      toLocation |-> FirstLocation(fields2, kept[i].name)]]

SharedFields(fields1, fields2) ==
  LET InMap2(f) == \E j \in 1..Len(fields2) : fields2[j].name = f.name IN
  CommonOf(SelectSeq(fields1, InMap2), fields2)

getCommonFields(type1, type2) ==
  IF ~HasEntity(type1) \/ ~HasEntity(type2) THEN <<>>
  ELSE SharedFields(getAllFields(type1), getAllFields(type2))

\* f.name.toLowerCase().includes(...) on the field names of the schema
IncludesId(name) == name \in {"entityId"}
IncludesGuid(name) == name \in {}
IncludesName(name) == name \in {"name"}

FirstOr(hits, commonFields) ==
  IF hits # <<>> THEN hits[1] ELSE commonFields[1]

preferredFieldMeta(commonFields) ==
  LET Hinted(f) == IncludesId(f.name) \/ IncludesGuid(f.name) \/ IncludesName(f.name)
  IN FirstOr(SelectSeq(commonFields, Hinted), commonFields)

\* an empty array slot, which JSON.stringify turns into null
EmptySlot == Relationship("", "", "", "", "", "")

DetectedRelationship(fromType, toType, meta) ==
  Relationship(fromType, toType, meta.name, meta.name,
               IF meta.fromLocation # "" THEN meta.fromLocation
               ELSE resolveFieldLocation(fromType, meta.name),
               IF meta.toLocation # "" THEN meta.toLocation
               ELSE resolveFieldLocation(toType, meta.name))

\* one turn of the loop: what it pushes for the pair
DetectPair(fromType, toType, commonFields) ==
  IF commonFields # <<>>
  THEN << DetectedRelationship(fromType, toType, preferredFieldMeta(commonFields)) >>
  ELSE <<>>

RECURSIVE detectFrom(_, _)
detectFrom(selected, i) ==
  IF i >= Len(selected) THEN <<>>
  ELSE DetectPair(selected[i], selected[i + 1],
                  getCommonFields(selected[i], selected[i + 1]))
         \o detectFrom(selected, i + 1)

autoDetectRelationships(selected) == detectFrom(selected, 1)

ensureRelationshipLocations(rels) ==
  [i \in 1..Len(rels) |->
     IF rels[i] = EmptySlot THEN rels[i]
     ELSE [rels[i] EXCEPT
             !.fromLocation = IF @ # "" THEN @
                              ELSE resolveFieldLocation(rels[i].from, rels[i].fromField),
             !.toLocation = IF @ # "" THEN @
                            ELSE resolveFieldLocation(rels[i].to, rels[i].toField)]]

\* ---- selected fields and the fields a query needs
Field(name, location) ==
  [name |-> name, location |-> location, zone |-> "detail", showLabel |-> TRUE]

\* selectedFields[entityType] || []
FieldsOf(fields, entityType) ==
  IF ObjHas(fields, entityType) THEN ObjGet(fields, entityType) ELSE <<>>

\* Object.values(selectedFields).some(fields => fields.length > 0)
HasFieldsAlways(fields) == TRUE

HasFields(fields) == \E i \in 1..Len(fields) : fields[i].value # <<>>

NameAndLocation(fs) ==
  [i \in 1..Len(fs) |-> [name |-> fs[i].name, location |-> fs[i].location]]

NoEntry == [name |-> "", location |-> ""]

LocationOr(location, entityType, fieldName) ==
  IF location # "" THEN location ELSE resolveFieldLocation(entityType, fieldName)

\* what one side of a relationship asks of entityType
RelEntry(entityType, rel, isFrom) ==
  IF rel = EmptySlot THEN NoEntry
  ELSE IF isFrom
  THEN IF rel.from = entityType /\ rel.fromField # ""
       THEN [name |-> rel.fromField,
             location |-> LocationOr(rel.fromLocation, entityType, rel.fromField)]
       ELSE NoEntry
  ELSE IF rel.to = entityType /\ rel.toField # ""
       THEN [name |-> rel.toField,
             location |-> LocationOr(rel.toLocation, entityType, rel.toField)]
       ELSE NoEntry

\* relationships.forEach: the from side, then the to side, of each relationship
relationshipEntries(entityType, rels) ==
  [k \in 1..(2 * Len(rels)) |->
     RelEntry(entityType, rels[(k + 1) \div 2], k % 2 = 1)]

\* required.push(entry) unless required.some(f => same name and location)
AddMissing(selected, entries) ==
  LET IsNew(k) == /\ entries[k] # NoEntry
                  /\ entries[k] \notin Range(selected)
                  /\ \A j \in 1..(k - 1) : entries[j] # entries[k]
      kept == SelectSeq([k \in 1..Len(entries) |-> k], IsNew)
  IN selected \o [i \in 1..Len(kept) |-> entries[kept[i]]]

\* the name and location of every field the query of entityType must fetch
getFieldsNeededForEntity(entityType, fields, rels) ==
  AddMissing(NameAndLocation(FieldsOf(fields, entityType)),
             relationshipEntries(entityType, rels))

NamesAt(fs, location) ==
  LET At(f) == f.location = location
      kept == SelectSeq(fs, At)
  IN [i \in 1..Len(kept) |-> kept[i].name]

\* buildFieldSelectionSet throws NO_FIELDS_AVAILABLE
buildFieldSelectionSetThrows(entityType, fields, rels) ==
  /\ NamesAt(getFieldsNeededForEntity(entityType, fields, rels), "basic") = <<>>
  /\ (~HasEntity(entityType) \/ SchemaEntity(entityType).basic = <<>>)

\* updateQueryInspector throws, out of generateGraphQLQueryText
updateQueryInspectorThrows(selected, fields, rels) ==
  /\ HasFields(fields)
  /\ \E i \in 1..Len(selected) :
       buildFieldSelectionSetThrows(selected[i], fields, rels)

\* ---- the query override: a text is a sequence of lines; a line matching
\* ---- /^#\s*(.+)$/ carries the trimmed heading, any other line its text
HeaderLine(name) == [header |-> name, text |-> ""]
TextLine(text) == [header |-> "", text |-> text]
BlankLine == TextLine("")

\* String.prototype.trim on a text: the blank lines at both ends go
Trim(lines) ==
  LET nonBlank == {i \in 1..Len(lines) : lines[i] # BlankLine} IN
  IF nonBlank = {} THEN <<>>
  ELSE SubSeq(lines, CHOOSE i \in nonBlank : \A j \in nonBlank : i <= j,
                     CHOOSE i \in nonBlank : \A j \in nonBlank : i >= j)

NullMap == [null |-> TRUE, entries |-> <<>>]
MapOf(entries) == [null |-> FALSE, entries |-> entries]

\* the buffer of the heading at line h: the lines up to the next heading
SectionEnd(lines, h) ==
  CHOOSE e \in (h + 1)..(Len(lines) + 1) :
    /\ e = Len(lines) + 1 \/ lines[e].header # ""
    /\ \A j \in (h + 1)..(e - 1) : lines[j].header = ""

Buffer(lines, h) == SubSeq(lines, h + 1, SectionEnd(lines, h) - 1)

\* the headings whose section is stored: if (current && buffer.length)
Stored(lines) ==
  {h \in 1..Len(lines) : lines[h].header # "" /\ Buffer(lines, h) # <<>>}

\* sections[current] = buffer.join('\n').trim(): a key stands where its first
\* stored heading put it and holds what its last stored heading assigned
LastStored(lines, stored, name) ==
  CHOOSE h \in stored :
    /\ lines[h].header = name
    /\ \A g \in stored : lines[g].header = name => g <= h

SectionsAt(lines, stored, firsts) ==
  [i \in 1..Len(firsts) |->
     [key |-> lines[firsts[i]].header,
      value |-> Trim(Buffer(lines, LastStored(lines, stored, lines[firsts[i]].header)))]]

SectionsOf(lines, stored) ==
  LET IsFirst(h) == /\ h \in stored
                    /\ \A g \in stored : lines[g].header = lines[h].header => g >= h
  IN SectionsAt(lines, stored, SelectSeq([h \in 1..Len(lines) |-> h], IsFirst))

parseSections(lines) == SectionsOf(lines, Stored(lines))

SectionsOrDefault(trimmed, sections) ==
  IF sections = <<>>
  THEN MapOf(<< [key |-> "__default", value |-> trimmed] >>)
  ELSE MapOf(sections)

ParseTrimmed(trimmed, selected) ==
  IF trimmed = <<>> THEN NullMap
  ELSE IF Len(selected) = 1
  THEN MapOf(<< [key |-> selected[1], value |-> trimmed] >>)
  ELSE SectionsOrDefault(trimmed, parseSections(trimmed))

parseOverrideString(text, selected) == ParseTrimmed(Trim(text), selected)

\* getParsedOverrideMap: the cache it leaves and the map it returns
getParsedOverrideMap(override, cachedValue, cachedMap, selected) ==
  IF Trim(override) = <<>> THEN [value |-> <<>>, map |-> NullMap]
  ELSE IF cachedValue = override THEN [value |-> cachedValue, map |-> cachedMap]
  ELSE [value |-> override, map |-> parseOverrideString(override, selected)]

\* map[key], the empty text standing for undefined
Lookup(entries, key) == IF ObjHas(entries, key) THEN ObjGet(entries, key) ELSE <<>>

\* map[entityType] || map.__default || null; the empty text stands for null,
\* which the callers treat alike
getQueryOverrideForEntity(map, entityType) ==
  IF map.null THEN <<>>
  ELSE IF Lookup(map.entries, entityType) # <<>> THEN Lookup(map.entries, entityType)
  ELSE Lookup(map.entries, "__default")

\* ---- titles and descriptions: sequences of characters
RECURSIVE TrimCharsStart(_)
TrimCharsStart(s) ==
  IF s # <<>> /\ Head(s) = " " THEN TrimCharsStart(Tail(s)) ELSE s

RECURSIVE TrimCharsEnd(_)
TrimCharsEnd(s) ==
  IF s # <<>> /\ s[Len(s)] = " " THEN TrimCharsEnd(SubSeq(s, 1, Len(s) - 1))
  ELSE s

sanitizeInput(input, maxLength) ==
  IF input = <<>> THEN <<>>
  ELSE LET trimmed == TrimCharsEnd(TrimCharsStart(input)) IN
       SubSeq(trimmed, 1, IF Len(trimmed) < maxLength THEN Len(trimmed) ELSE maxLength)

escapeHTMLNothing(str) == str

escapeHTML(str) ==
  [i \in 1..Len(str) |->
     CASE str[i] = "<" -> "&lt;"
       [] str[i] = ">" -> "&gt;"
       [] str[i] = "&" -> "&amp;"
       [] str[i] = "\"" -> "&quot;"
       [] str[i] = "'" -> "&#39;"
       [] OTHER -> str[i]]

\* ---- compilation
AutoQuery(basic, tags, properties) ==
  [kind |-> "auto", basic |-> basic, tags |-> tags, properties |-> properties,
   lines |-> <<>>]

\* const query = JSON.stringify(overrideQuery): the override text itself
OverrideQuery(lines) ==
  [kind |-> "override", basic |-> <<>>, tags |-> FALSE, properties |-> FALSE,
   lines |-> lines]

HasLocation(fs, location) == \E i \in 1..Len(fs) : fs[i].location = location

\* Object.keys(aggregateStats).some(et => aggregateStats[et].length > 0)
HasStats(stats) == \E i \in 1..Len(stats) : stats[i].value # <<>>

EmptyConfig == [entityTypes |-> <<>>, relationships |-> <<>>, selectedFields |-> <<>>]

NoArtifact ==
  [path |-> "none", title |-> <<>>, description |-> <<>>, display |-> "",
   layoutMode |-> "", queries |-> <<>>, config |-> EmptyConfig, fields |-> <<>>,
   aggregateQueries |-> <<>>, aggregateRenderer |-> <<>>, awaitsAggregates |-> FALSE]

generateSingleEntityDisplayFunction(displayMode) ==
  IF displayMode = "summary-table" THEN "generateSummaryTableDisplay"
  ELSE IF displayMode = "grouped" THEN "generateGroupedDisplay"
  ELSE "generateTableDisplay"

\* the method displayHierarchicalData of the artifact calls
displayHierarchicalData(layoutMode) ==
  IF layoutMode = "hierarchical" THEN "renderHierarchy"
  ELSE IF layoutMode = "table" THEN "renderTable"
  ELSE IF layoutMode = "timeline" THEN "renderTimeline"
  ELSE "renderCards"

\* generateAggregateQueries reads the undeclared aggregateData as soon as
\* one statistic exists, which is a ReferenceError
generateAggregateQueriesThrows(stats) == HasStats(stats)

\* ['SUM', 'AVG', 'MIN', 'MAX'].includes(operation)
IsNumeric(operation) == operation \in {"SUM", "AVG", "MIN", "MAX"}

\* every stat of every entity type, in Object.entries order
RECURSIVE AllStats(_)
AllStats(stats) ==
  IF stats = <<>> THEN <<>>
  ELSE [i \in 1..Len(stats[1].value) |->
          [entityType |-> stats[1].key, stat |-> stats[1].value[i]]]
       \o AllStats(Tail(stats))

\* the fetchAggregateStat_<statId> functions generateAggregateQueries emits
\* when it completes: the arguments and the result fields of each query
generateAggregateQueries(stats) ==
  LET all == AllStats(stats) IN
  [i \in 1..Len(all) |->
     [entityType |-> all[i].entityType, id |-> all[i].stat.id,
      field |-> all[i].stat.field,
      resultFields |-> IF IsNumeric(all[i].stat.operation)
                       THEN <<"sum", "avg", "min", "max">> ELSE <<"count">>]]

\* stat.label || `${stat.operation}${stat.field ? ' ' + stat.field : ''}`
LabelOrDefault(stat) ==
  IF stat.label # <<>> THEN stat.label
  ELSE IF stat.field # "" THEN <<stat.operation, " ", stat.field>>
  ELSE <<stat.operation>>

\* the stat cards generateAggregateRenderer emits: the label put in the
\* comment and in the stat-label div, and the operation whose value is shown
generateAggregateRenderer(stats) ==
  LET all == AllStats(stats) IN
  [i \in 1..Len(all) |->
     [entityType |-> all[i].entityType, id |-> all[i].stat.id,
      label |-> escapeHTML(LabelOrDefault(all[i].stat)),
      operation |-> all[i].stat.operation]]

\* aggregateStats.length > 0 in the templates: aggregateStats is an object
\* keyed by entity type, its length is undefined, and undefined > 0 is false
AggregateStatsLengthAboveZero(stats) == FALSE

ChooseQuery(overrideQuery, autoQuery) ==
  IF overrideQuery # <<>> THEN OverrideQuery(overrideQuery) ELSE autoQuery

\* escapeHTML(sanitizeInput(title, CONFIG.MAX_TITLE_LENGTH))
EscapedTitle(title) == escapeHTML(sanitizeInput(title, MAX_TITLE_LENGTH))

EscapedDesc(description) ==
  IF description # <<>>
  THEN escapeHTML(sanitizeInput(description, MAX_DESCRIPTION_LENGTH))
  ELSE <<>>

SingleReport(entityType, own, overrideQuery, stats, title, description, displayMode) ==
  [ threw |-> generateAggregateQueriesThrows(stats),
    html |-> [ path |-> "single",
               title |-> EscapedTitle(title),
               description |-> EscapedDesc(description),
               display |-> generateSingleEntityDisplayFunction(displayMode),
               layoutMode |-> "",
               queries |-> << [entityType |-> entityType,
                               query |-> ChooseQuery(overrideQuery,
                                            AutoQuery(NamesAt(own, "basic"),
                                                      HasLocation(own, "tag"),
                                                      HasLocation(own, "property")))] >>,
               config |-> EmptyConfig,
               fields |-> own,
               aggregateQueries |-> generateAggregateQueries(stats),
               aggregateRenderer |-> generateAggregateRenderer(stats),
               awaitsAggregates |-> AggregateStatsLengthAboveZero(stats) ] ]

generateSingleEntityReport(selected, fields, stats, map, title, description, displayMode) ==
  SingleReport(selected[1], FieldsOf(fields, selected[1]),
               getQueryOverrideForEntity(map, selected[1]),
               stats, title, description, displayMode)

EntityQuery(entityType, needed, overrideQuery) ==
  [entityType |-> entityType,
   query |-> ChooseQuery(overrideQuery,
              AutoQuery(IF HasLocation(needed, "basic") THEN NamesAt(needed, "basic")
                        ELSE <<"entityId", "entityName", "entityType">>,
                        HasLocation(needed, "tag"), HasLocation(needed, "property")))]

generateGraphQLQueries(selected, rels, fields, map) ==
  [ i \in 1..Len(selected) |->
      EntityQuery(selected[i],
                  getFieldsNeededForEntity(selected[i], fields, rels),
                  getQueryOverrideForEntity(map, selected[i])) ]

isSingleEntityUpToTwo(selected) == Len(selected) <= 2

isSingleEntity(selected) == Len(selected) = 1

generateMultiEntityReport(selected, rels, fields, stats, map, title, description, displayMode) ==
  IF isSingleEntity(selected)
  THEN generateSingleEntityReport(selected, fields, stats, map, title, description, displayMode)
  ELSE
    [ threw |-> generateAggregateQueriesThrows(stats),
      html |-> [ path |-> "multi",
                 title |-> EscapedTitle(title),
                 description |-> EscapedDesc(description),
                 display |-> displayHierarchicalData(displayMode),
                 layoutMode |-> displayMode,
                 queries |-> generateGraphQLQueries(selected, rels, fields, map),
                 config |-> [entityTypes |-> selected, relationships |-> rels,
                             selectedFields |-> fields],
                 fields |-> <<>>,
                 aggregateQueries |-> generateAggregateQueries(stats),
                 aggregateRenderer |-> generateAggregateRenderer(stats),
                 awaitsAggregates |-> AggregateStatsLengthAboveZero(stats) ] ]

\* ---- the inputs of the handlers
\* the field clicked in the field selector, or picked in a relationship
\* select: the last field of the type
ClickableFields(entityType) ==
  LET all == getAllFields(entityType) IN
  IF all = <<>> THEN {} ELSE {all[Len(all)]}

\* the position a node is dragged to: the left edge of the canvas
DragXs == {NODE_DRAG_PADDING}

PlainText == << TextLine("q") >>
HeadedText ==
  << BlankLine, HeaderLine("A"), TextLine("qa"), BlankLine,
     HeaderLine("B"), TextLine("qb") >>
TextareaValues == {PlainText, HeadedText}

\* every display mode with the title and description left empty, and one
\* click with a title and a description to trim and escape
GenerateInputs ==
  { [title |-> <<>>, description |-> <<>>, displayMode |-> m] :
      m \in {"table", "summary-table", "grouped", "hierarchical", "cards", "timeline"} }
  \cup { [title |-> <<" ", "Q", "<">>, description |-> <<"&">>, displayMode |-> "table"] }

\* the click with the hierarchical display chosen
HierarchicalInputs == {input \in GenerateInputs : input.displayMode = "hierarchical"}

\* the entity cards clicked in a session up to compilation
CompileTypes == {"A", "B"}

VARIABLES
  selectedEntityTypes, relationships, selectedFields, generatedHTML,
  relationshipLayout, nodeDragState, customQueryOverride,
  cachedOverrideValue, cachedOverrideMap,
  \* a debounced rebuild is pending
  updateTimeout,
  aggregateStats,
  \* history.stack and history.pointer
  history,
  \* the selection the relationship builder and canvas were last rendered for,
  \* and the entity types the field selector was last rendered for
  renderedSelection, fieldSelectorTypes,
  \* the last click on Generate: its inputs and its outcome
  lastClick

builderVars ==
  << selectedEntityTypes, relationships, selectedFields, generatedHTML,
     relationshipLayout, nodeDragState, customQueryOverride,
     cachedOverrideValue, cachedOverrideMap, updateTimeout, aggregateStats,
     history, renderedSelection, fieldSelectorTypes, lastClick >>

NoPos == -1
NoDrag == ""
IdleClick ==
  [outcome |-> "idle", title |-> <<>>, description |-> <<>>, displayMode |-> ""]

BuilderInit ==
  /\ selectedEntityTypes = <<>>
  /\ relationships = <<>>
  /\ selectedFields = <<>>
  /\ generatedHTML = NoArtifact
  /\ relationshipLayout = [t \in Types |-> NoPos]
  /\ nodeDragState = NoDrag
  /\ customQueryOverride = <<>>
  /\ cachedOverrideValue = <<>>
  /\ cachedOverrideMap = NullMap
  /\ updateTimeout = FALSE
  /\ aggregateStats = <<>>
  /\ history = [stack |-> <<>>, pointer |-> -1]
  /\ renderedSelection = <<>>
  /\ fieldSelectorTypes = {}
  /\ lastClick = IdleClick

\* ---- history (builder.js 120-186)
Snapshot(selected, rels, fields, layout) ==
  [selectedEntityTypes |-> selected, relationships |-> rels,
   selectedFields |-> fields, relationshipLayout |-> layout]

\* save() that never drops the oldest snapshot
historySaveKeepsAll(h, state) ==
  [stack |-> Append(SubSeq(h.stack, 1, h.pointer + 1), state),
   pointer |-> h.pointer + 1]

historySave(h, state) ==
  LET stack == Append(SubSeq(h.stack, 1, h.pointer + 1), state) IN
  IF Len(stack) > UNDO_MAX_SIZE
  THEN [stack |-> Tail(stack), pointer |-> h.pointer]
  ELSE [stack |-> stack, pointer |-> h.pointer + 1]

\* ---- buildRelationships (builder.js 468-579) on a selection: the
\* relationships and layout it leaves, and whether updateQueryInspector threw
\* at its end
renderRelationshipCanvas(selected, layout) ==
  [t \in Types |->
     IF t \in Range(selected) /\ layout[t] = NoPos
     THEN 40 + ((CHOOSE i \in 1..Len(selected) : selected[i] = t) - 1) * 220
     ELSE layout[t]]

Built(selected, fields, layout, rels) ==
  [relationships |-> rels,
   layout |-> renderRelationshipCanvas(selected, layout),
   threw |-> updateQueryInspectorThrows(selected, fields, rels)]

buildRelationships(selected, fields, layout) ==
  IF Len(selected) < 2
  THEN [relationships |-> <<>>,
        layout |-> renderRelationshipCanvas(selected, layout),
        threw |-> FALSE]
  ELSE Built(selected, fields, layout,
             ensureRelationshipLocations(autoDetectRelationships(selected)))

\* Array.prototype.sort by x, which is stable
PosX(layout, e) ==
  IF e \in DOMAIN layout /\ layout[e] # NoPos THEN layout[e] ELSE 0

\* the rank of position i: the elements left of it after the sort
RankByX(selected, layout, i) ==
  Cardinality({j \in 1..Len(selected) :
                 \/ PosX(layout, selected[j]) < PosX(layout, selected[i])
                 \/ (PosX(layout, selected[j]) = PosX(layout, selected[i]) /\ j < i)})

reorderEntitiesByLayout(selected, layout) ==
  [p \in 1..Len(selected) |->
     selected[CHOOSE i \in 1..Len(selected) : RankByX(selected, layout, i) = p - 1]]

\* relationships[index] = value, index counted from 0; slots skipped stay empty
ArraySet(arr, index, value) ==
  [i \in 1..(IF index + 1 > Len(arr) THEN index + 1 ELSE Len(arr)) |->
     IF i = index + 1 THEN value
     ELSE IF i <= Len(arr) THEN arr[i] ELSE EmptySlot]

\* ---- the handlers

\* a toggleEntityType that forgets every field selection on a deselect
ToggledForgetsFields(entityTypeName) ==
  IF entityTypeName \in Range(selectedEntityTypes)
  THEN LET NotIt(e) == e # entityTypeName IN
       [selected |-> SelectSeq(selectedEntityTypes, NotIt),
        fields |-> <<>>,
        layout |-> [relationshipLayout EXCEPT ![entityTypeName] = NoPos]]
  ELSE [selected |-> Append(selectedEntityTypes, entityTypeName),
        fields |-> ObjSet(selectedFields, entityTypeName, <<>>),
        layout |-> [relationshipLayout EXCEPT ![entityTypeName] =
                      IF @ # NoPos THEN @
                      ELSE NODE_BASE_X_OFFSET
                           + (Len(selectedEntityTypes) + 1) * NODE_X_SPACING]]

\* what toggleEntityType makes of the selection, the fields and the layout
Toggled(entityTypeName) ==
  IF entityTypeName \in Range(selectedEntityTypes)
  THEN LET NotIt(e) == e # entityTypeName IN
       [selected |-> SelectSeq(selectedEntityTypes, NotIt),
        fields |-> ObjDelete(selectedFields, entityTypeName),
        layout |-> [relationshipLayout EXCEPT ![entityTypeName] = NoPos]]
  ELSE [selected |-> Append(selectedEntityTypes, entityTypeName),
        fields |-> ObjSet(selectedFields, entityTypeName, <<>>),
        layout |-> [relationshipLayout EXCEPT ![entityTypeName] =
                      IF @ # NoPos THEN @
                      ELSE NODE_BASE_X_OFFSET
                           + (Len(selectedEntityTypes) + 1) * NODE_X_SPACING]]

\* toggleEntityType (builder.js 422-465), up to the setTimeout
toggleEntityType(entityTypeName) ==
  /\ \E now \in {Toggled(entityTypeName)} :
       /\ selectedEntityTypes' = now.selected
       /\ selectedFields' = now.fields
       /\ relationshipLayout' = now.layout
       /\ history' = historySave(history,
                       Snapshot(now.selected, relationships, now.fields, now.layout))
  /\ cachedOverrideValue' = <<>>
  /\ cachedOverrideMap' = NullMap
  /\ updateTimeout' = TRUE
  /\ lastClick' = IdleClick
  /\ UNCHANGED << relationships, generatedHTML, nodeDragState, customQueryOverride,
                  aggregateStats, renderedSelection, fieldSelectorTypes >>

\* the debounced callback of toggleEntityType (builder.js 447-464)
debouncedUpdate ==
  /\ updateTimeout
  /\ updateTimeout' = FALSE
  /\ IF Len(selectedEntityTypes) > 0
     THEN \E built \in {buildRelationships(selectedEntityTypes, selectedFields,
                                           relationshipLayout)} :
             /\ relationships' = built.relationships
             /\ relationshipLayout' = built.layout
             /\ renderedSelection' = selectedEntityTypes
             /\ fieldSelectorTypes' = IF built.threw THEN fieldSelectorTypes
                                      ELSE Range(selectedEntityTypes)
     ELSE UNCHANGED << relationships, relationshipLayout, renderedSelection,
                       fieldSelectorTypes >>
  /\ lastClick' = IdleClick
  /\ UNCHANGED << selectedEntityTypes, selectedFields, generatedHTML, nodeDragState,
                  customQueryOverride, cachedOverrideValue, cachedOverrideMap,
                  aggregateStats, history >>

\* history.restore, for undo and redo (builder.js 146-171)
historyRestore(pointer) ==
  \E state \in {history.stack[pointer + 1]} :
    \E built \in {buildRelationships(state.selectedEntityTypes, state.selectedFields,
                                     state.relationshipLayout)} :
       /\ history' = [history EXCEPT !.pointer = pointer]
       /\ selectedEntityTypes' = state.selectedEntityTypes
       /\ selectedFields' = state.selectedFields
       /\ relationships' = built.relationships
       /\ relationshipLayout' = built.layout
       /\ renderedSelection' = state.selectedEntityTypes
       /\ fieldSelectorTypes' = IF built.threw THEN fieldSelectorTypes
                                ELSE Range(state.selectedEntityTypes)
       /\ lastClick' = IdleClick
       /\ UNCHANGED << generatedHTML, nodeDragState, customQueryOverride,
                       cachedOverrideValue, cachedOverrideMap, updateTimeout,
                       aggregateStats >>

historyUndo ==
  /\ history.pointer > 0
  /\ historyRestore(history.pointer - 1)

historyRedo ==
  /\ history.pointer < Len(history.stack) - 1
  /\ historyRestore(history.pointer + 1)

\* pointerdown on a node of the canvas (builder.js 626-646)
onNodePointerDown(entity) ==
  /\ entity \in Range(renderedSelection)
  /\ nodeDragState = NoDrag
  /\ nodeDragState' = entity
  /\ lastClick' = IdleClick
  /\ UNCHANGED << selectedEntityTypes, relationships, selectedFields, generatedHTML,
                  relationshipLayout, customQueryOverride, cachedOverrideValue,
                  cachedOverrideMap, updateTimeout, aggregateStats, history,
                  renderedSelection, fieldSelectorTypes >>

\* pointermove while dragging (builder.js 648-668); newX is already clamped
onNodePointerMove(newX) ==
  /\ nodeDragState # NoDrag
  /\ relationshipLayout' =
       IF nodeDragState \in Range(renderedSelection)
       THEN [relationshipLayout EXCEPT ![nodeDragState] = newX]
       ELSE relationshipLayout
  /\ lastClick' = IdleClick
  /\ UNCHANGED << selectedEntityTypes, relationships, selectedFields, generatedHTML,
                  nodeDragState, customQueryOverride, cachedOverrideValue,
                  cachedOverrideMap, updateTimeout, aggregateStats, history,
                  renderedSelection, fieldSelectorTypes >>

\* pointerup (builder.js 670-681)
onNodePointerUp ==
  /\ nodeDragState # NoDrag
  /\ \E selected \in {reorderEntitiesByLayout(selectedEntityTypes, relationshipLayout)} :
       \E built \in {buildRelationships(selected, selectedFields, relationshipLayout)} :
          /\ selectedEntityTypes' = selected
          /\ relationships' = built.relationships
          /\ relationshipLayout' = built.layout
          /\ renderedSelection' = selected
  /\ nodeDragState' = NoDrag
  /\ lastClick' = IdleClick
  /\ UNCHANGED << selectedFields, generatedHTML, customQueryOverride,
                  cachedOverrideValue, cachedOverrideMap, updateTimeout,
                  aggregateStats, history, fieldSelectorTypes >>

\* the object updateRelationship stores
ManualRelationship(fromType, toType, fromMeta, toMeta) ==
  Relationship(fromType, toType, fromMeta.name, toMeta.name,
               LocationOr(fromMeta.location, fromType, fromMeta.name),
               LocationOr(toMeta.location, toType, toMeta.name))

\* updateRelationship (builder.js 845-864) once both selects of row index hold
\* a field; the options are those rendered for renderedSelection
updateRelationship(index, fromMeta, toMeta) ==
  /\ index + 2 <= Len(renderedSelection)
  /\ fromMeta \in ClickableFields(renderedSelection[index + 1])
  /\ toMeta \in ClickableFields(renderedSelection[index + 2])
  /\ relationships' =
       ArraySet(relationships, index,
                ManualRelationship(TypeAt(selectedEntityTypes, index),
                                   TypeAt(selectedEntityTypes, index + 1),
                                   fromMeta, toMeta))
  /\ lastClick' = IdleClick
  /\ UNCHANGED << selectedEntityTypes, selectedFields, generatedHTML,
                  relationshipLayout, nodeDragState, customQueryOverride,
                  cachedOverrideValue, cachedOverrideMap, updateTimeout,
                  aggregateStats, history, renderedSelection, fieldSelectorTypes >>

\* what toggleField makes of the fields of one entity type
ToggledFields(own, fieldName, location) ==
  LET Other(f) == ~(f.name = fieldName /\ f.location = location) IN
  IF \E i \in 1..Len(own) : ~Other(own[i])
  THEN SelectSeq(own, Other)
  ELSE Append(own, Field(fieldName, location))

\* toggleField (builder.js 1639-1655), clicked on a rendered field item
toggleField(entityType, fieldName, location) ==
  /\ entityType \in fieldSelectorTypes
  /\ selectedFields' =
       ObjSet(selectedFields, entityType,
              ToggledFields(FieldsOf(selectedFields, entityType), fieldName, location))
  /\ fieldSelectorTypes' = Range(selectedEntityTypes)
  /\ lastClick' = IdleClick
  /\ UNCHANGED << selectedEntityTypes, relationships, generatedHTML,
                  relationshipLayout, nodeDragState, customQueryOverride,
                  cachedOverrideValue, cachedOverrideMap, updateTimeout,
                  aggregateStats, history, renderedSelection >>

\* the click handler of applyQueryOverride (builder.js 1686-1693)
applyQueryOverride(textareaValue) ==
  /\ customQueryOverride' = Trim(textareaValue)
  /\ cachedOverrideValue' = <<>>
  /\ cachedOverrideMap' = NullMap
  /\ lastClick' = IdleClick
  /\ UNCHANGED << selectedEntityTypes, relationships, selectedFields, generatedHTML,
                  relationshipLayout, nodeDragState, updateTimeout, aggregateStats,
                  history, renderedSelection, fieldSelectorTypes >>

\* the click handler of resetQueryOverride (builder.js 1695-1701)
resetQueryOverride ==
  /\ customQueryOverride' = <<>>
  /\ cachedOverrideValue' = <<>>
  /\ cachedOverrideMap' = NullMap
  /\ lastClick' = IdleClick
  /\ UNCHANGED << selectedEntityTypes, relationships, selectedFields, generatedHTML,
                  relationshipLayout, nodeDragState, updateTimeout, aggregateStats,
                  history, renderedSelection, fieldSelectorTypes >>

\* the click handler of generateBtn (builder.js 1742-1774)
Clicked(input, outcome) ==
  [outcome |-> outcome, title |-> input.title,
   description |-> input.description, displayMode |-> input.displayMode]

\* sanitizeInput(reportTitle.value || 'Multi-Entity Report', MAX_TITLE_LENGTH)
TitleOf(input) ==
  sanitizeInput(IF input.title # <<>> THEN input.title ELSE <<"Multi-Entity Report">>,
                MAX_TITLE_LENGTH)

DescriptionOf(input) == sanitizeInput(input.description, MAX_DESCRIPTION_LENGTH)

generate(input) ==
  /\ IF Len(selectedEntityTypes) = 0
     THEN /\ lastClick' = Clicked(input, "NO_ENTITIES_SELECTED")
          /\ UNCHANGED << generatedHTML, cachedOverrideValue, cachedOverrideMap >>
     ELSE IF ~HasFields(selectedFields)
     THEN /\ lastClick' = Clicked(input, "NO_FIELDS_SELECTED")
          /\ UNCHANGED << generatedHTML, cachedOverrideValue, cachedOverrideMap >>
     ELSE \E cache \in {getParsedOverrideMap(customQueryOverride, cachedOverrideValue,
                                               cachedOverrideMap, selectedEntityTypes)} :
            \E report \in {generateMultiEntityReport(selectedEntityTypes, relationships,
                               selectedFields, aggregateStats, cache.map,
                               TitleOf(input), DescriptionOf(input),
                               input.displayMode)} :
               /\ cachedOverrideValue' = cache.value
               /\ cachedOverrideMap' = cache.map
               /\ generatedHTML' = IF report.threw THEN generatedHTML ELSE report.html
               /\ lastClick' = Clicked(input, IF report.threw THEN "ReferenceError" ELSE "ok")
  /\ UNCHANGED << selectedEntityTypes, relationships, selectedFields,
                  relationshipLayout, nodeDragState, customQueryOverride,
                  updateTimeout, aggregateStats, history, renderedSelection,
                  fieldSelectorTypes >>

\* ---- aggregate statistics (builder.js 3125-3180)
\* aggregateStats[entityType] || []
StatsOf(stats, entityType) ==
  IF ObjHas(stats, entityType) THEN ObjGet(stats, entityType) ELSE <<>>

\* addAggregateStat, clicked in the field selector; id is Date.now()
addAggregateStat(entityType, id) ==
  /\ entityType \in fieldSelectorTypes
  /\ aggregateStats' =
       ObjSet(aggregateStats, entityType,
              Append(StatsOf(aggregateStats, entityType),
                     [id |-> id, operation |-> "COUNT", field |-> "", label |-> <<>>]))
  /\ history' = historySave(history,
                   Snapshot(selectedEntityTypes, relationships, selectedFields,
                            relationshipLayout))
  /\ lastClick' = IdleClick
  /\ UNCHANGED << selectedEntityTypes, relationships, selectedFields, generatedHTML,
                  relationshipLayout, nodeDragState, customQueryOverride,
                  cachedOverrideValue, cachedOverrideMap, updateTimeout,
                  renderedSelection, fieldSelectorTypes >>

\* removeAggregateStat, clicked on the card of a stat
removeAggregateStat(entityType, id) ==
  /\ \E i \in 1..Len(StatsOf(aggregateStats, entityType)) :
       StatsOf(aggregateStats, entityType)[i].id = id
  /\ aggregateStats' =
       ObjSet(aggregateStats, entityType,
              SelectSeq(StatsOf(aggregateStats, entityType), LAMBDA st : st.id # id))
  /\ history' = historySave(history,
                   Snapshot(selectedEntityTypes, relationships, selectedFields,
                            relationshipLayout))
  /\ lastClick' = IdleClick
  /\ UNCHANGED << selectedEntityTypes, relationships, selectedFields, generatedHTML,
                  relationshipLayout, nodeDragState, customQueryOverride,
                  cachedOverrideValue, cachedOverrideMap, updateTimeout,
                  renderedSelection, fieldSelectorTypes >>

\* stat[field] = value, and the field cleared when the operation becomes COUNT
UpdatedStat(stat, field, value) ==
  CASE field = "operation" ->
         [stat EXCEPT !.operation = value,
                      !.field = IF value = "COUNT" THEN "" ELSE @]
    [] field = "field" -> [stat EXCEPT !.field = value]
    [] OTHER -> [stat EXCEPT !.label = value]

\* updateAggregateStat on the first stat with this id, changed on its card
updateAggregateStat(entityType, id, field, value) ==
  /\ \E found \in {{i \in 1..Len(StatsOf(aggregateStats, entityType)) :
                      StatsOf(aggregateStats, entityType)[i].id = id}} :
       /\ found # {}
       /\ \E first \in {CHOOSE i \in found : \A j \in found : i <= j} :
            aggregateStats' =
              ObjSet(aggregateStats, entityType,
                     [StatsOf(aggregateStats, entityType) EXCEPT
                        ![first] = UpdatedStat(@, field, value)])
  /\ history' = historySave(history,
                   Snapshot(selectedEntityTypes, relationships, selectedFields,
                            relationshipLayout))
  /\ lastClick' = IdleClick
  /\ UNCHANGED << selectedEntityTypes, relationships, selectedFields, generatedHTML,
                  relationshipLayout, nodeDragState, customQueryOverride,
                  cachedOverrideValue, cachedOverrideMap, updateTimeout,
                  renderedSelection, fieldSelectorTypes >>

\* ---- saving and loading the configuration (builder.js 2890-2972)
VARIABLES
  \* the configuration file saveBuilderConfig last downloaded
  downloadedFile,
  \* the generated artifact loaded in its frame: its globals, the runs of
  \* main, the fetch calls made so far, and what its page shows
  artifact, bearerToken, serviceUrl, runs, fetchCalls, entityData, loading,
  reportContent, lastMessage,
  \* the last change of the session with the setup before and after it, and
  \* the setup at the time of the last save
  lastChange, savedSetup

artifactVars ==
  << artifact, bearerToken, serviceUrl, runs, fetchCalls, entityData, loading,
     reportContent, lastMessage >>

ledgerVars == << lastChange, savedSetup >>

VARIABLES
  \* the schema last parsed from a schema file, and schemaCache.entityMap
  schema, entityMap

schemaVars == << schema, entityMap >>

\* ---- the schema file and schemaCache (builder.js 87-115, 349-398)
\* schema.entityTypes of the schema the field operators above read
ModelSchema == [i \in 1..3 |-> [name |-> <<"A", "B", "C">>[i],
                                fields |-> SchemaEntity(<<"A", "B", "C">>[i])]]

\* another schema file: type A with other fields, and no type B or C
OtherSchema ==
  << [name |-> "A",
      fields |-> [basic |-> <<"entityId">>, tags |-> <<"env">>, properties |-> <<>>]] >>

SchemaFiles == {ModelSchema, OtherSchema}

\* entityTypes.find(et => et.name === name): the first descriptor of the
\* name, as a list of one, or the empty list for undefined
FindEntity(entityTypes, name) ==
  IF \E i \in 1..Len(entityTypes) : entityTypes[i].name = name
  THEN << entityTypes[CHOOSE i \in 1..Len(entityTypes) :
                        /\ entityTypes[i].name = name
                        /\ \A j \in 1..(i - 1) : entityTypes[j].name # name] >>
  ELSE <<>>

\* schemaCache.buildCache(schema): the entityMap it leaves
buildCache(map, entityTypes) ==
  IF ~map.null THEN map ELSE MapOf(entityTypes)

\* schemaCache.getEntity(name): this.entityMap?.get(name)
getEntity(map, name) ==
  IF map.null THEN <<>> ELSE FindEntity(map.entries, name)

\* the change handler of the schema file input on a file that parses and
\* passes validateSchema; the selection is left as it is. The handler ends
\* with selectReportType('entity'), which is not defined in builder.js
loadSchema(file) ==
  /\ schema' = file
  /\ entityMap' = buildCache(entityMap, file)
  /\ history' = [stack |-> <<>>, pointer |-> -1]
  /\ lastClick' = IdleClick
  /\ UNCHANGED << selectedEntityTypes, relationships, selectedFields, generatedHTML,
                  relationshipLayout, nodeDragState, customQueryOverride,
                  cachedOverrideValue, cachedOverrideMap, updateTimeout,
                  aggregateStats, renderedSelection, fieldSelectorTypes >>

NoFile == [version |-> ""]

\* the config object saveBuilderConfig serialises; the title, description and
\* displayMode it copies from the form are left out
ConfigFile ==
  [version |-> "1.0",
   selectedEntityTypes |-> selectedEntityTypes,
   relationships |-> relationships,
   selectedFields |-> selectedFields,
   relationshipLayout |-> relationshipLayout,
   customQueryOverride |-> customQueryOverride]

saveBuilderConfig ==
  /\ downloadedFile' = ConfigFile
  /\ lastClick' = IdleClick
  /\ UNCHANGED << selectedEntityTypes, relationships, selectedFields, generatedHTML,
                  relationshipLayout, nodeDragState, customQueryOverride,
                  cachedOverrideValue, cachedOverrideMap, updateTimeout,
                  aggregateStats, history, renderedSelection, fieldSelectorTypes >>

\* loadBuilderConfig on the file saved last, with a schema loaded
loadBuilderConfig ==
  /\ downloadedFile # NoFile
  /\ \E built \in {buildRelationships(downloadedFile.selectedEntityTypes,
                                      downloadedFile.selectedFields,
                                      downloadedFile.relationshipLayout)} :
       /\ selectedEntityTypes' = downloadedFile.selectedEntityTypes
       /\ selectedFields' = downloadedFile.selectedFields
       /\ customQueryOverride' = downloadedFile.customQueryOverride
       /\ history' = historySave([stack |-> <<>>, pointer |-> -1],
                       Snapshot(downloadedFile.selectedEntityTypes,
                                downloadedFile.relationships,
                                downloadedFile.selectedFields,
                                downloadedFile.relationshipLayout))
       /\ relationships' = built.relationships
       /\ relationshipLayout' = built.layout
       /\ renderedSelection' = downloadedFile.selectedEntityTypes
       /\ fieldSelectorTypes' = IF built.threw THEN fieldSelectorTypes
                                ELSE Range(downloadedFile.selectedEntityTypes)
  /\ lastClick' = IdleClick
  /\ UNCHANGED << generatedHTML, nodeDragState, cachedOverrideValue,
                  cachedOverrideMap, updateTimeout, aggregateStats, downloadedFile >>

\* ---- the generated artifact at run time: the script generateMultiEntityReport
\* ---- (builder.js 2271-2304) and generateSingleEntityReport (1869-1928) emit
\* event.data.data and event.data.config of a message: absent, or a config
NoConfig == [present |-> FALSE, token |-> "", endPoint |-> ""]
HubConfig(token, endPoint) == [present |-> TRUE, token |-> token, endPoint |-> endPoint]

\* const config = event?.data?.data || event?.data?.config in the multi-entity
\* artifact, event?.data?.data in the single-entity one
MessageConfig(art, message) ==
  IF art.path = "multi" /\ ~message.data.present THEN message.config
  ELSE message.data

\* event?.data?.type === 'apiConfig' && config?.token?.length && config?.endPoint?.length
AcceptsAnyType(art, message) ==
  /\ MessageConfig(art, message).token # ""
  /\ MessageConfig(art, message).endPoint # ""

Accepts(art, message) ==
  /\ message.type = "apiConfig"
  /\ MessageConfig(art, message).token # ""
  /\ MessageConfig(art, message).endPoint # ""

\* the fetch<EntityType> functions fetchAllData awaits in turn, or the one
\* fetch of fetchData
FetchList(art) == [i \in 1..Len(art.queries) |-> art.queries[i].entityType]

\* fetchAllData has no fetch left to await
AllFetchedAfterAny(run, fetchList) == TRUE

AllFetched(run, fetchList) == run.awaiting = Len(fetchList)

\* await fetch(serviceUrl, ...) of the run's next entity type
FetchCall(r, entityType, url, token) ==
  [run |-> r, entityType |-> entityType, url |-> url, token |-> token]

\* receiveHubToken on a message event; main() runs up to its first await
receiveHubToken(message) ==
  /\ lastMessage' = message
  /\ IF Accepts(artifact, message)
     THEN \E config \in {MessageConfig(artifact, message)} :
            /\ bearerToken' = config.token
            /\ serviceUrl' = config.endPoint
            /\ runs' = Append(runs, [awaiting |-> 1, state |-> "awaiting",
                                      fetched |-> {}])
            /\ fetchCalls' = Append(fetchCalls,
                               FetchCall(Len(runs) + 1, FetchList(artifact)[1],
                                         config.endPoint, config.token))
     ELSE UNCHANGED << bearerToken, serviceUrl, runs, fetchCalls >>
  /\ UNCHANGED << artifact, entityData, loading, reportContent >>

\* the fetch a run awaits returns entities: the run goes on to its next
\* fetch, or renders and hides the loading indicator
fetchResolves(r) ==
  /\ r \in 1..Len(runs)
  /\ runs[r].state = "awaiting"
  /\ \E entityType \in {FetchList(artifact)[runs[r].awaiting]} :
       /\ entityData' = IF artifact.path = "multi" THEN entityData \cup {entityType}
                        ELSE entityData
       /\ IF AllFetched(runs[r], FetchList(artifact))
          THEN /\ runs' = [runs EXCEPT ![r].state = "rendered",
                                       ![r].fetched = @ \cup {entityType}]
               /\ reportContent' = artifact.display
               /\ loading' = [loading EXCEPT !.display = "none"]
               /\ UNCHANGED fetchCalls
          ELSE /\ runs' = [runs EXCEPT ![r].awaiting = @ + 1,
                                       ![r].fetched = @ \cup {entityType}]
               /\ fetchCalls' = Append(fetchCalls,
                                  FetchCall(r, FetchList(artifact)[runs[r].awaiting + 1],
                                            serviceUrl, bearerToken))
               /\ UNCHANGED << reportContent, loading >>
  /\ UNCHANGED << artifact, bearerToken, serviceUrl, lastMessage >>

\* the fetch a run awaits fails, by a network failure or by result.errors:
\* the run ends and the loading indicator gets the error text
fetchFails(r, failure) ==
  /\ r \in 1..Len(runs)
  /\ runs[r].state = "awaiting"
  /\ runs' = [runs EXCEPT ![r].state = "failed"]
  /\ loading' = [loading EXCEPT !.text = failure]
  /\ UNCHANGED << artifact, bearerToken, serviceUrl, fetchCalls, entityData,
                  reportContent, lastMessage >>

\* ---- the inputs of the sessions with statistics, undo and files
\* bounds of the exploration: the history entries below the pointer before a
\* handler that saves history is offered again, and the largest Date.now()
MaxGenerateHistory == 3
\* the same for the field select of a stat card, which is only shown after
\* the card was added and its operation changed
MaxStatHistory == 4
MaxUndoHistory == 3
MaxFilesHistory == 3
MaxManualHistory == 2
MaxCardsHistory == 4
MaxPendingHistory == 4
MaxEmitHistory == 4
\* bounds of the exploration of the stat cards: the stats of one entity type
\* and the largest Date.now()
MaxCards == 2
MaxTick == 2
MaxStatId == 1
\* bound of the exploration: the stats a session configures
MaxStats == 1

\* the entity cards clicked in a session with statistics: B has basic
\* fields, C has none
GenerateTypes == {"B", "C"}

\* Date.now() does not go back; two clicks in one millisecond get the same id
ClockIds ==
  {id \in 1..MaxStatId :
     \A i \in 1..Len(aggregateStats) : \A j \in 1..Len(aggregateStats[i].value) :
       aggregateStats[i].value[j].id <= id}

\* the same clock in a session on the stat cards
TickIds ==
  {id \in 1..MaxTick :
     \A i \in 1..Len(aggregateStats) : \A j \in 1..Len(aggregateStats[i].value) :
       aggregateStats[i].value[j].id <= id}

\* the ids of the stat cards rendered for an entity type
RenderedStatIds(entityType) ==
  {StatsOf(aggregateStats, entityType)[i].id :
     i \in 1..Len(StatsOf(aggregateStats, entityType))}

\* the ids of the cards that show a field select
NumericStatIds(entityType) ==
  {StatsOf(aggregateStats, entityType)[i].id :
     i \in {j \in 1..Len(StatsOf(aggregateStats, entityType)) :
              IsNumeric(StatsOf(aggregateStats, entityType)[j].operation)}}

\* the options of the field select of a card: fields.basic of the entity
StatFieldOptions(entityType) == Range(SchemaEntity(entityType).basic)

StatLabels == { <<"<", "b", ">">> }

\* the messages the frame may get
Messages ==
  [type : {"apiConfig", "other"},
   data : {NoConfig, HubConfig("t", "u"), HubConfig("", "u"), HubConfig("t", "")},
   config : {NoConfig, HubConfig("t", "u")}]

\* bound of the exploration: the apiConfig messages the artifact accepts
MaxRuns == 2

\* artifacts the builder generates: for one, two and three entity types, each
\* with its last field selected and the relationships detected
FieldsFor(selected) ==
  [i \in 1..Len(selected) |->
     [key |-> selected[i],
      value |-> << Field((CHOOSE f \in ClickableFields(selected[i]) : TRUE).name,
                         (CHOOSE f \in ClickableFields(selected[i]) : TRUE).location) >>]]

LoadableArtifacts ==
  { generateMultiEntityReport(
      selected, ensureRelationshipLocations(autoDetectRelationships(selected)),
      FieldsFor(selected), <<>>, NullMap, <<"R">>, <<>>, "hierarchical").html :
    selected \in { <<"B">>, <<"A", "B">>, <<"A", "B", "C">> } }

\* ---- the ledger of a session: what the claims on undo and on files compare
Setup ==
  [selectedEntityTypes |-> selectedEntityTypes, relationships |-> relationships,
   selectedFields |-> selectedFields, relationshipLayout |-> relationshipLayout,
   aggregateStats |-> aggregateStats, customQueryOverride |-> customQueryOverride]

NoSetup ==
  [selectedEntityTypes |-> <<>>, relationships |-> <<>>, selectedFields |-> <<>>,
   relationshipLayout |-> [t \in Types |-> NoPos], aggregateStats |-> <<>>,
   customQueryOverride |-> <<>>]

NoChange == [kind |-> "none", of |-> "none", before |-> NoSetup, after |-> NoSetup]

Changes ==
  {"toggleEntityType", "toggleField", "updateRelationship", "addAggregateStat",
   "removeAggregateStat", "updateAggregateStat"}

\* a configuration change was made
Changed(kind) ==
  /\ lastChange' = [kind |-> kind, of |-> kind, before |-> Setup, after |-> Setup']
  /\ UNCHANGED savedSetup

\* undo or redo was invoked: right after a change, or after the undo of one
Stepped(kind, after) ==
  /\ lastChange' = [lastChange EXCEPT
                      !.kind = kind,
                      !.of = IF lastChange.kind \in after THEN lastChange.of ELSE "none"]
  /\ UNCHANGED savedSetup

\* a file was saved or loaded, or something else happened
Filed(kind) ==
  /\ lastChange' = [NoChange EXCEPT !.kind = kind]
  /\ savedSetup' = IF kind = "save" THEN Setup ELSE savedSetup

AllFieldMetas == UNION {Range(getAllFields(t)) : t \in Types}

\* the state of the generated report, and everything outside the handlers
\* of the selection, the chain and the compilation
renderVars == <<joinVars, matchVars, artifactVars, schemaVars>>
outsideVars == <<renderVars, downloadedFile, ledgerVars>>

\* the handlers of the selection and of the relationship chain
NextChain ==
  \/ \E t \in Types :
       /\ history.pointer + 1 < MaxChainHistory
       /\ toggleEntityType(t) /\ UNCHANGED outsideVars
  \/ debouncedUpdate /\ UNCHANGED outsideVars
  \/ historyUndo /\ UNCHANGED outsideVars
  \/ historyRedo /\ UNCHANGED outsideVars
  \/ \E e \in Types : onNodePointerDown(e) /\ UNCHANGED outsideVars
  \/ \E x \in DragXs : onNodePointerMove(x) /\ UNCHANGED outsideVars
  \/ onNodePointerUp /\ UNCHANGED outsideVars
  \/ \E index \in 0..1, fromMeta \in AllFieldMetas, toMeta \in AllFieldMetas :
       updateRelationship(index, fromMeta, toMeta) /\ UNCHANGED outsideVars

\* the handlers that lead to a compilation
NextCompile ==
  \/ \E t \in CompileTypes :
       /\ history.pointer + 1 < MaxCompileHistory
       /\ toggleEntityType(t) /\ UNCHANGED outsideVars
  \/ debouncedUpdate /\ UNCHANGED outsideVars
  \/ historyUndo /\ UNCHANGED outsideVars
  \/ historyRedo /\ UNCHANGED outsideVars
  \/ \E t \in CompileTypes : \E f \in ClickableFields(t) :
       toggleField(t, f.name, f.location) /\ UNCHANGED outsideVars
  \/ \E text \in TextareaValues : applyQueryOverride(text) /\ UNCHANGED outsideVars
  \/ resetQueryOverride /\ UNCHANGED outsideVars
  \/ \E input \in GenerateInputs : generate(input) /\ UNCHANGED outsideVars

\* the handlers of a session that configures statistics and generates
NextGenerate ==
  \/ \E t \in GenerateTypes :
       /\ history.pointer + 1 < MaxGenerateHistory
       /\ toggleEntityType(t) /\ UNCHANGED outsideVars
  \/ debouncedUpdate /\ UNCHANGED outsideVars
  \/ \E t \in GenerateTypes : \E f \in ClickableFields(t) :
       toggleField(t, f.name, f.location) /\ UNCHANGED outsideVars
  \/ \E t \in GenerateTypes : \E id \in ClockIds :
       /\ history.pointer + 1 < MaxGenerateHistory
       /\ Len(AllStats(aggregateStats)) < MaxStats
       /\ addAggregateStat(t, id) /\ UNCHANGED outsideVars
  \/ \E t \in GenerateTypes : \E id \in RenderedStatIds(t) :
       /\ history.pointer + 1 < MaxGenerateHistory
       /\ \/ \E operation \in {"COUNT", "SUM"} :
               updateAggregateStat(t, id, "operation", operation)
          \/ \E label \in StatLabels : updateAggregateStat(t, id, "label", label)
       /\ UNCHANGED outsideVars
  \/ \E t \in GenerateTypes : \E id \in NumericStatIds(t) :
       \E field \in StatFieldOptions(t) :
         /\ history.pointer + 1 < MaxStatHistory
         /\ updateAggregateStat(t, id, "field", field) /\ UNCHANGED outsideVars
  \/ \E input \in GenerateInputs : generate(input) /\ UNCHANGED outsideVars

\* the handlers of a session with undo and redo
NextUndo ==
  \/ \E t \in CompileTypes :
       /\ history.pointer + 1 < MaxUndoHistory
       /\ toggleEntityType(t) /\ Changed("toggleEntityType")
       /\ UNCHANGED << renderVars, downloadedFile >>
  \/ debouncedUpdate /\ UNCHANGED outsideVars
  \/ \E f \in ClickableFields("A") :
       /\ toggleField("A", f.name, f.location) /\ Changed("toggleField")
       /\ UNCHANGED << renderVars, downloadedFile >>
  \/ \E fromMeta \in AllFieldMetas, toMeta \in AllFieldMetas :
       /\ updateRelationship(0, fromMeta, toMeta) /\ Changed("updateRelationship")
       /\ UNCHANGED << renderVars, downloadedFile >>
  \/ \E id \in ClockIds :
       /\ history.pointer + 1 < MaxUndoHistory
       /\ Len(AllStats(aggregateStats)) < MaxStats
       /\ addAggregateStat("A", id) /\ Changed("addAggregateStat")
       /\ UNCHANGED << renderVars, downloadedFile >>
  \/ \E id \in RenderedStatIds("A") :
       /\ history.pointer + 1 < MaxUndoHistory
       /\ updateAggregateStat("A", id, "operation", "SUM")
       /\ Changed("updateAggregateStat")
       /\ UNCHANGED << renderVars, downloadedFile >>
  \/ \E id \in RenderedStatIds("A") :
       /\ history.pointer + 1 < MaxUndoHistory
       /\ removeAggregateStat("A", id) /\ Changed("removeAggregateStat")
       /\ UNCHANGED << renderVars, downloadedFile >>
  \/ historyUndo /\ Stepped("undo", Changes) /\ UNCHANGED << renderVars, downloadedFile >>
  \/ historyRedo /\ Stepped("redo", {"undo"}) /\ UNCHANGED << renderVars, downloadedFile >>

\* the handlers of a session in which the user sets a join by hand; the
\* ledger keeps the setup right after the last edit of a relationship until
\* the selection is changed by a click on an entity card
NextManual ==
  \/ \E t \in CompileTypes :
       /\ history.pointer + 1 < MaxManualHistory
       /\ toggleEntityType(t) /\ Filed("none")
       /\ UNCHANGED << renderVars, downloadedFile >>
  \/ debouncedUpdate /\ UNCHANGED outsideVars
  \/ \E fromMeta \in AllFieldMetas, toMeta \in AllFieldMetas :
       /\ updateRelationship(0, fromMeta, toMeta) /\ Changed("updateRelationship")
       /\ UNCHANGED << renderVars, downloadedFile >>
  \/ \E f \in ClickableFields("A") :
       toggleField("A", f.name, f.location) /\ UNCHANGED outsideVars
  \/ \E e \in CompileTypes : onNodePointerDown(e) /\ UNCHANGED outsideVars
  \/ \E x \in DragXs : onNodePointerMove(x) /\ UNCHANGED outsideVars
  \/ onNodePointerUp /\ UNCHANGED outsideVars
  \/ historyUndo /\ UNCHANGED outsideVars
  \/ historyRedo /\ UNCHANGED outsideVars
  \/ \E input \in HierarchicalInputs : generate(input) /\ UNCHANGED outsideVars

\* the handlers of a session that loads schema files and fills the history
NextSchema ==
  \/ \E file \in SchemaFiles :
       loadSchema(file) /\ UNCHANGED << joinVars, matchVars, artifactVars,
                                        downloadedFile, ledgerVars >>
  \/ toggleEntityType("A") /\ UNCHANGED outsideVars
  \/ debouncedUpdate /\ UNCHANGED outsideVars
  \/ historyUndo /\ UNCHANGED outsideVars
  \/ historyRedo /\ UNCHANGED outsideVars

\* the handlers of a session on the entity selection, the fields and the stat
\* cards of entity type A
NextCards ==
  \/ \E t \in CompileTypes :
       /\ history.pointer + 1 < MaxCardsHistory
       /\ toggleEntityType(t) /\ UNCHANGED outsideVars
  \/ debouncedUpdate /\ UNCHANGED outsideVars
  \/ \E t \in CompileTypes : \E f \in ClickableFields(t) :
       toggleField(t, f.name, f.location) /\ UNCHANGED outsideVars
  \/ \E id \in TickIds :
       /\ history.pointer + 1 < MaxCardsHistory
       /\ Len(StatsOf(aggregateStats, "A")) < MaxCards
       /\ addAggregateStat("A", id) /\ UNCHANGED outsideVars
  \/ \E id \in RenderedStatIds("A") :
       /\ history.pointer + 1 < MaxCardsHistory
       /\ removeAggregateStat("A", id) /\ UNCHANGED outsideVars
  \/ \E id \in RenderedStatIds("A") : \E operation \in {"COUNT", "SUM"} :
       /\ history.pointer + 1 < MaxCardsHistory
       /\ updateAggregateStat("A", id, "operation", operation)
       /\ UNCHANGED outsideVars

\* the handlers of a session that clicks Generate at any time, also between
\* a toggle and its debounced rebuild
NextPending ==
  \/ \E t \in Types :
       /\ history.pointer + 1 < MaxPendingHistory
       /\ toggleEntityType(t) /\ UNCHANGED outsideVars
  \/ debouncedUpdate /\ UNCHANGED outsideVars
  \/ \E f \in ClickableFields("B") :
       toggleField("B", f.name, f.location) /\ UNCHANGED outsideVars
  \/ \E input \in HierarchicalInputs : generate(input) /\ UNCHANGED outsideVars

\* ---- the generated report rendered on entity data of the loaded schema:
\* one record per entity type, the A and B records with the same name and
\* entityId, the B and C records with the same zone tag
SchemaRecord(entityType) ==
  [ basic |-> [f \in Range(SchemaEntity(entityType).basic) |-> Str("1")],
    tags |-> IF SchemaEntity(entityType).tags = <<>> THEN Absent
             ELSE Items([i \in 1..Len(SchemaEntity(entityType).tags) |->
                           [key |-> SchemaEntity(entityType).tags[i],
                            value |-> Str("z")]]),
    properties |-> Absent, namespaces |-> Absent ]

ReportData == [t \in RenderTypes |-> << SchemaRecord(t) >>]

\* new ReportRenderer(builderConfig, entityData) and renderHierarchy of the
\* artifact compiled last (builder.js 2393-2396, 2575-2593)
renderReport ==
  /\ rPhase = "config"
  /\ lastClick.outcome = "ok"
  /\ generatedHTML.path = "multi"
  /\ rEntityTypes' = generatedHTML.config.entityTypes
  /\ rRelationships' = generatedHTML.config.relationships
  /\ rEntityData' = ReportData
  /\ rNodes' = buildNodes(generatedHTML.config.entityTypes,
                          generatedHTML.config.relationships, ReportData)
  /\ rRows' = <<>>
  /\ rPhase' = "built"

\* the handlers of a session that ends with the generated report rendered
NextEmit ==
  \/ \E t \in Types :
       /\ rPhase = "config"
       /\ history.pointer + 1 < MaxEmitHistory
       /\ toggleEntityType(t) /\ UNCHANGED outsideVars
  \/ rPhase = "config" /\ debouncedUpdate /\ UNCHANGED outsideVars
  \/ \E f \in ClickableFields("B") :
       /\ rPhase = "config"
       /\ toggleField("B", f.name, f.location) /\ UNCHANGED outsideVars
  \/ \E input \in HierarchicalInputs :
       /\ rPhase = "config"
       /\ generate(input) /\ UNCHANGED outsideVars
  \/ /\ renderReport
     /\ UNCHANGED << matchVars, builderVars, artifactVars, schemaVars,
                     downloadedFile, ledgerVars >>

\* the handlers of a session that saves its configuration and loads it back
NextFiles ==
  \/ \E t \in CompileTypes :
       /\ history.pointer + 1 < MaxFilesHistory
       /\ toggleEntityType(t) /\ Filed("none")
       /\ UNCHANGED << renderVars, downloadedFile >>
  \/ debouncedUpdate /\ Filed("none")
       /\ UNCHANGED << renderVars, downloadedFile >>
  \/ \E fromMeta \in AllFieldMetas, toMeta \in AllFieldMetas :
       /\ updateRelationship(0, fromMeta, toMeta) /\ Filed("none")
       /\ UNCHANGED << renderVars, downloadedFile >>
  \/ \E id \in ClockIds :
       /\ history.pointer + 1 < MaxFilesHistory
       /\ Len(AllStats(aggregateStats)) < MaxStats
       /\ addAggregateStat("A", id) /\ Filed("none")
       /\ UNCHANGED << renderVars, downloadedFile >>
  \/ saveBuilderConfig /\ Filed("save") /\ UNCHANGED renderVars
  \/ loadBuilderConfig /\ Filed("load") /\ UNCHANGED renderVars

\* the events of the generated artifact in its frame
NextArtifact ==
  \/ \E message \in Messages :
       /\ Len(runs) < MaxRuns
       /\ receiveHubToken(message)
       /\ UNCHANGED << joinVars, matchVars, builderVars, downloadedFile, ledgerVars, schemaVars >>
  \/ \E r \in 1..MaxRuns :
       /\ fetchResolves(r)
       /\ UNCHANGED << joinVars, matchVars, builderVars, downloadedFile, ledgerVars, schemaVars >>
  \/ \E r \in 1..MaxRuns : \E failure \in {"network", "errors"} :
       /\ fetchFails(r, failure)
       /\ UNCHANGED << joinVars, matchVars, builderVars, downloadedFile, ledgerVars, schemaVars >>

NextJoin ==
  \/ BuildNodes /\ UNCHANGED <<matchVars, builderVars, artifactVars, downloadedFile, ledgerVars, schemaVars>>
  \/ CollectRows /\ UNCHANGED <<matchVars, builderVars, artifactVars, downloadedFile, ledgerVars, schemaVars>>

NextMatch ==
  \/ ReadJoinValues /\ UNCHANGED <<joinVars, builderVars, artifactVars, downloadedFile, ledgerVars, schemaVars>>
  \/ SetJoinValues /\ UNCHANGED <<joinVars, builderVars, artifactVars, downloadedFile, ledgerVars, schemaVars>>
  \/ ValuesMatch /\ UNCHANGED <<joinVars, builderVars, artifactVars, downloadedFile, ledgerVars, schemaVars>>

vars == <<joinVars, matchVars, builderVars, artifactVars, downloadedFile, ledgerVars, schemaVars>>

\* the schema file was loaded once, no configuration file was saved and
\* nothing is in the ledger
FilesIdle ==
  /\ downloadedFile = NoFile
  /\ lastChange = NoChange
  /\ savedSetup = NoSetup
  /\ schema = ModelSchema
  /\ entityMap = buildCache(NullMap, ModelSchema)

\* a frame that holds the artifact art, just loaded
ArtifactLoaded(art) ==
  /\ artifact = art
  /\ bearerToken = ""
  /\ serviceUrl = ""
  /\ runs = <<>>
  /\ fetchCalls = <<>>
  /\ entityData = {}
  /\ loading = [display |-> "block", text |-> "loading"]
  /\ reportContent = ""
  /\ lastMessage = [type |-> "", data |-> NoConfig, config |-> NoConfig]

InitBuilder == BuilderInit /\ JoinIdle /\ MatchIdle /\ FilesIdle /\ ArtifactLoaded(NoArtifact)
InitJoin == JoinInit /\ MatchIdle /\ BuilderInit /\ FilesIdle /\ ArtifactLoaded(NoArtifact)
InitMatch == JoinIdle /\ MatchIdle /\ BuilderInit /\ FilesIdle /\ ArtifactLoaded(NoArtifact)
InitArtifact ==
  /\ BuilderInit /\ JoinIdle /\ MatchIdle /\ FilesIdle
  /\ \E art \in LoadableArtifacts : ArtifactLoaded(art)

\* a builder session on the relationship chain, a builder session up to
\* compilation, the renderer on a configuration, one join comparison
SpecChain == InitBuilder /\ [][NextChain]_vars
SpecCompile == InitBuilder /\ [][NextCompile]_vars
SpecJoin == InitJoin /\ [][NextJoin]_vars
SpecMatch == InitMatch /\ [][NextMatch]_vars
\* a builder session with statistics, one with undo, one with files, and
\* the generated artifact in its frame
SpecGenerate == InitBuilder /\ [][NextGenerate]_vars
SpecUndo == InitBuilder /\ [][NextUndo]_vars
SpecFiles == InitBuilder /\ [][NextFiles]_vars
SpecArtifact == InitArtifact /\ [][NextArtifact]_vars
\* a builder session that loads schema files and fills the history
SpecSchema == InitBuilder /\ [][NextSchema]_vars
\* a builder session up to the rendering of the generated report
SpecEmit == InitBuilder /\ [][NextEmit]_vars
\* a builder session with clicks on Generate at any time
SpecPending == InitBuilder /\ [][NextPending]_vars
\* a builder session on the stat cards
SpecCards == InitBuilder /\ [][NextCards]_vars
\* a builder session with a join set by hand
SpecManual == InitBuilder /\ [][NextManual]_vars




(***************************************************************************)
(* Claims about the join engine.                                           *)
(***************************************************************************)
RECURSIVE SumSeq(_)
SumSeq(s) == IF s = <<>> THEN 0 ELSE Head(s) + SumSeq(Tail(s))

\* the roots the renderer is given: the records of entityData[entityTypes[0]]
RootRecords ==
  IF rEntityTypes = <<>> THEN <<>> ELSE DataOf(rEntityData, rEntityTypes[1])

\* both join values are present and they are the same value of the same type
JoinValuesEqual(rel, parent, child) ==
  LET pv == getRelationshipValue(parent, rel.fromField, rel.fromLocation)
      cv == getRelationshipValue(child, rel.toField, rel.toLocation)
  IN  /\ pv.t \notin {"undefined", "null"}
      /\ cv.t \notin {"undefined", "null"}
      /\ pv.t = cv.t
      /\ pv.v = cv.v

\* the records a node at this depth built from this record must have as children
ExpectedChildren(depth, record) ==
  IF depth < Len(rRelationships)
    THEN SelectSeq(DataOf(rEntityData, rRelationships[depth + 1].to),
                   LAMBDA c : JoinValuesEqual(rRelationships[depth + 1], record, c))
    ELSE <<>>

RECURSIVE NodeIsJoinOf(_, _, _)
NodeIsJoinOf(node, depth, record) ==
  /\ node.entity = record
  /\ Len(node.children) = Len(ExpectedChildren(depth, record))
  /\ \A i \in 1..Len(node.children) :
       NodeIsJoinOf(node.children[i], depth + 1, ExpectedChildren(depth, record)[i])

\* C1: buildNodes returns one root node per record of entityData[entityTypes[0]],
\* in order and unfiltered; the children of a node at depth d < len(relationships)
\* built from record r are exactly the records of entityData[relationships[d].to]
\* whose join value is present and equals r's, in data order; deeper than the
\* relationships a node has no children.
C1_BuildNodesIsTheJoin ==
  rPhase \in {"built", "rows"} =>
    /\ Len(rNodes) = Len(RootRecords)
    /\ \A i \in 1..Len(rNodes) : NodeIsJoinOf(rNodes[i], 0, RootRecords[i])

\* a tree with a root of two children, a root of none, and a record on the
\* child side of the second relationship that no node matched
C1_Witness ==
  /\ rPhase = "built"
  /\ Len(rRelationships) = 2
  /\ \E i, j \in 1..Len(rNodes) :
       /\ Len(rNodes[i].children) = 2
       /\ Len(rNodes[j].children) = 0
  /\ \E k \in 1..Len(DataOf(rEntityData, rRelationships[2].to)) :
       \A i \in 1..Len(rNodes) : \A c \in 1..Len(rNodes[i].children) :
         \A g \in 1..Len(rNodes[i].children[c].children) :
           rNodes[i].children[c].children[g].entity
             # DataOf(rEntityData, rRelationships[2].to)[k]

\* C2: valuesMatch(p, c) is false when p or c is null or undefined, false when
\* p and c have different types, and true only when both are present and
\* strictly equal.
C2_ValuesMatchIsStrict ==
  mCalled =>
    /\ mParent.t \in {"undefined", "null"} => ~mResult
    /\ mChild.t \in {"undefined", "null"} => ~mResult
    /\ mParent.t # mChild.t => ~mResult
    /\ mResult <=> /\ mParent.t \notin {"undefined", "null"}
                   /\ mParent.t = mChild.t
                   /\ mParent.v = mChild.v

\* the string "1" against the number 1 was compared and did not match
C2_Witness ==
  /\ mCalled
  /\ mParent = Str("1")
  /\ mChild = Num("1")
  /\ ~mResult

RECURSIVE LeafCount(_)
LeafCount(node) ==
  IF Len(node.children) = 0 THEN 1
  ELSE SumSeq([i \in 1..Len(node.children) |-> LeafCount(node.children[i])])

\* the branches of a tree cut below the level of the last configured entity type
RECURSIVE BranchCount(_, _, _)
BranchCount(node, depth, last) ==
  IF Len(node.children) = 0 \/ depth = last THEN 1
  ELSE SumSeq([i \in 1..Len(node.children) |->
                 BranchCount(node.children[i], depth + 1, last)])

\* C3 as stated: collectRows produces as many rows as the tree has leaves, and
\* every row has one column per configured entity type.
C3_RowsEqualLeaves ==
  rPhase = "rows" =>
    /\ Len(rRows) = SumSeq([i \in 1..Len(rNodes) |-> LeafCount(rNodes[i])])
    /\ \A i \in 1..Len(rRows) : Len(rRows[i]) = Len(rEntityTypes)

\* C3 as amended: collectRows produces one row per terminal branch, a branch
\* ending at a leaf or at the level of the last configured entity type, and
\* every row has one column per configured entity type.
C3_RowsEqualTerminalBranches ==
  rPhase = "rows" =>
    /\ Len(rRows) = SumSeq([i \in 1..Len(rNodes) |->
                              BranchCount(rNodes[i], 0, Len(rEntityTypes) - 1)])
    /\ \A i \in 1..Len(rRows) : Len(rRows[i]) = Len(rEntityTypes)

\* a row that ends early at a leaf, and a row that ends at the last configured
\* entity type although the tree goes on below it
C3_Witness ==
  /\ rPhase = "rows"
  /\ Len(rEntityTypes) = 2
  /\ Len(rRelationships) = 2
  /\ \E i, j \in 1..Len(rRows) :
       /\ rRows[i][2] = NullCell
       /\ rRows[j][2] # NullCell
       /\ Len(rRows[j][2][1].children) > 0

\* no candidate child of the first relationship matches any root
NoChildMatches ==
  /\ Len(rRelationships) >= 1
  /\ \A i \in 1..Len(RootRecords) :
       \A k \in 1..Len(DataOf(rEntityData, rRelationships[1].to)) :
         ~JoinValuesEqual(rRelationships[1], RootRecords[i],
                          DataOf(rEntityData, rRelationships[1].to)[k])

\* C4: when the root entity type has records and the first relationship matches
\* no child record at all, collectRows returns exactly one row per root record,
\* the root in column 0 and null in every deeper column.
C4_RootsKeptWithoutMatches ==
  (rPhase = "rows" /\ Len(RootRecords) >= 1 /\ NoChildMatches) =>
    /\ Len(rRows) = Len(RootRecords)
    /\ rRows # <<>>
    /\ \A i \in 1..Len(rRows) :
         /\ Len(rRows[i]) = Len(rEntityTypes)
         /\ rRows[i][1] # NullCell
         /\ rRows[i][1][1].entity = RootRecords[i]
         /\ \A c \in 2..Len(rRows[i]) : rRows[i][c] = NullCell

\* two roots, candidate children present, none of them matched
C4_Witness ==
  /\ rPhase = "rows"
  /\ Len(rEntityTypes) = 3
  /\ Len(RootRecords) = 2
  /\ NoChildMatches
  /\ Len(DataOf(rEntityData, rRelationships[1].to)) >= 1
  /\ Len(rRows) = 2

(***************************************************************************)
(* Claims about the relationship chain.                                    *)
(***************************************************************************)
\* no rebuild is pending and no node is being dragged
ChainAtRest == ~updateTimeout /\ nodeDragState = NoDrag

\* the relationship stored at index i (from 0) links selectedEntityTypes[i]
\* to selectedEntityTypes[i + 1]
LinksAdjacentPair(i) ==
  /\ relationships[i + 1].from = TypeAt(selectedEntityTypes, i)
  /\ relationships[i + 1].to = TypeAt(selectedEntityTypes, i + 1)

\* C5: once the pending rebuilds have run, every relationship stored at
\* index i has from = selectedEntityTypes[i] and to = selectedEntityTypes[i+1].
C5_ChainFollowsSelection ==
  ChainAtRest =>
    \A i \in 0..(Len(relationships) - 1) :
      relationships[i + 1] # EmptySlot => LinksAdjacentPair(i)

\* the step ran buildRelationships for the selection it leaves: the debounced
\* callback with a selection, or the end of a drag
RanBuildRelationships ==
  \/ updateTimeout /\ ~updateTimeout' /\ Len(selectedEntityTypes) > 0
  \/ nodeDragState # NoDrag /\ nodeDragState' = NoDrag

AdjacentPairs(selected) == IF Len(selected) > 1 THEN Len(selected) - 1 ELSE 0

\* C6: after buildRelationships has run for the current selection, the
\* relationships hold exactly one relationship per adjacent pair of selected
\* entity types: max(0, len(selectedEntityTypes) - 1) of them and no empty slot.
C6_OnePerAdjacentPair ==
  [][ RanBuildRelationships =>
        /\ Len(relationships') = AdjacentPairs(selectedEntityTypes')
        /\ \A i \in 1..Len(relationships') : relationships'[i] # EmptySlot ]_vars

(***************************************************************************)
(* Claims about compilation.                                               *)
(***************************************************************************)
\* the last event was a click on Generate that compiled an artifact
Compiled == lastClick.outcome = "ok"

SingleDisplays ==
  {"generateTableDisplay", "generateSummaryTableDisplay", "generateGroupedDisplay"}
RendererMethods == {"renderHierarchy", "renderTable", "renderTimeline", "renderCards"}

\* C7: a compilation with exactly one selected entity type takes the
\* single-entity template path and never the hierarchical renderer path, one
\* with two or more takes the renderer path and never the single-entity
\* template path, whatever the displayMode.
C7_PathByCardinality ==
  Compiled =>
    /\ Len(selectedEntityTypes) = 1 =>
         /\ generatedHTML.path = "single"
         /\ generatedHTML.display \in SingleDisplays
    /\ Len(selectedEntityTypes) >= 2 =>
         /\ generatedHTML.path = "multi"
         /\ generatedHTML.display \in RendererMethods
         /\ generatedHTML.layoutMode = lastClick.displayMode

\* both paths were taken under a displayMode that names a layout of the other
C7_Witness ==
  /\ Compiled
  /\ Len(selectedEntityTypes) = 2
  /\ lastClick.displayMode = "summary-table"
  /\ generatedHTML.path = "multi"

\* the heading lines of a text, and the text is made of headings each
\* followed by a body, one heading per entity type
HeadingLines(text) == {h \in 1..Len(text) : text[h].header # ""}

NextHeading(text, h) ==
  IF \E g \in HeadingLines(text) : g > h
  THEN CHOOSE g \in HeadingLines(text) :
         g > h /\ \A k \in HeadingLines(text) : k > h => g <= k
  ELSE Len(text) + 1

BodyLines(text, h) ==
  {j \in (h + 1)..(NextHeading(text, h) - 1) : text[j] # BlankLine}

IsHeadedText(text) ==
  /\ text # <<>>
  /\ text[1].header # ""
  /\ \A h \in HeadingLines(text) : BodyLines(text, h) # {}
  /\ \A h, g \in HeadingLines(text) : text[h].header = text[g].header => h = g

\* the body under the heading of entityType, without its outer blank lines
HeadedBody(text, entityType) ==
  LET h == CHOOSE g \in HeadingLines(text) : text[g].header = entityType
      first == CHOOSE j \in BodyLines(text, h) : \A k \in BodyLines(text, h) : j <= k
      last == CHOOSE j \in BodyLines(text, h) : \A k \in BodyLines(text, h) : j >= k
  IN SubSeq(text, first, last)

IsHeaded(text, entityType) == \E h \in HeadingLines(text) : text[h].header = entityType

\* C8: with two or more selected entity types and an override text made of
\* headings each followed by a body, the query emitted for each headed entity
\* type is that heading's body, trimmed, and not the generated query.
C8_HeadedBodiesEmitted ==
  (Compiled /\ Len(selectedEntityTypes) >= 2 /\ IsHeadedText(customQueryOverride)) =>
    \A i \in 1..Len(generatedHTML.queries) :
      IsHeaded(customQueryOverride, generatedHTML.queries[i].entityType) =>
        generatedHTML.queries[i].query =
          OverrideQuery(HeadedBody(customQueryOverride,
                                   generatedHTML.queries[i].entityType))

\* the artifact of the configuration and of the inputs of the last click, with
\* nothing remembered from before
FreshCompile ==
  generateMultiEntityReport(selectedEntityTypes, relationships, selectedFields,
                            aggregateStats,
                            parseOverrideString(customQueryOverride, selectedEntityTypes),
                            TitleOf(lastClick), DescriptionOf(lastClick),
                            lastClick.displayMode).html

\* C9: the artifact depends on the configuration, the schema, the title, the
\* description and the displayMode only: every compilation yields the artifact
\* a compilation with no history and no cache yields.
C9_CompileIsDeterministic == Compiled => generatedHTML = FreshCompile

NoFieldAnywhere == \A i \in 1..Len(selectedFields) : selectedFields[i].value = <<>>

\* the last event was a click on Generate
GenerateClickedLast == lastClick.outcome # "idle"

\* the step is a click on Generate
GenerateClicked == lastClick'.outcome # "idle"

\* C10: a click on Generate with no entity type selected, or with no field
\* selected for any entity type, is rejected with a configuration error and
\* leaves generatedHTML as it was.
C10_RejectedWithoutSelection ==
  [][ (GenerateClicked /\ (selectedEntityTypes = <<>> \/ NoFieldAnywhere)) =>
        /\ lastClick'.outcome \in {"NO_ENTITIES_SELECTED", "NO_FIELDS_SELECTED"}
        /\ generatedHTML' = generatedHTML ]_vars

\* a click was rejected for want of fields while an earlier artifact was kept
C10_Witness ==
  /\ lastClick.outcome = "NO_FIELDS_SELECTED"
  /\ selectedEntityTypes # <<>>
  /\ generatedHTML # NoArtifact

(***************************************************************************)
(* Claims about rejected generations and about statistics.                 *)
(***************************************************************************)
\* the codes of the configuration errors
ConfigurationErrors ==
  {"NO_ENTITIES_SELECTED", "NO_FIELDS_SELECTED", "NO_FIELDS_AVAILABLE",
   "INVALID_AGGREGATE_STAT"}

\* some selected entity type has no basic field selected or needed for a
\* join, and the schema offers no basic field for it
SomeTypeWithoutBasicFields ==
  \E i \in 1..Len(selectedEntityTypes) :
    /\ \A j \in 1..Len(getFieldsNeededForEntity(selectedEntityTypes[i],
                                                selectedFields, relationships)) :
         getFieldsNeededForEntity(selectedEntityTypes[i], selectedFields,
                                  relationships)[j].location # "basic"
    /\ SchemaEntity(selectedEntityTypes[i]).basic = <<>>

\* C11: a click on Generate is rejected with a configuration error whenever
\* some selected entity type has zero resolvable basic fields.
C11_RejectedWithoutBasicFields ==
  (GenerateClickedLast /\ SomeTypeWithoutBasicFields /\ aggregateStats = <<>>) =>
    lastClick.outcome \in ConfigurationErrors

\* some configured stat has a numeric operation and an empty field
SomeNumericStatWithoutField ==
  \E i \in 1..Len(aggregateStats) : \E j \in 1..Len(aggregateStats[i].value) :
    /\ aggregateStats[i].value[j].operation \in {"SUM", "AVG", "MIN", "MAX"}
    /\ aggregateStats[i].value[j].field = ""

\* C12: a click on Generate is rejected with a configuration error whenever
\* some stat has operation SUM, AVG, MIN or MAX and an empty field.
C12_RejectedNumericStatWithoutField ==
  (GenerateClickedLast /\ SomeNumericStatWithoutField) =>
    lastClick.outcome \in ConfigurationErrors

\* at least one entity type and one field are selected
ValidSelection ==
  /\ selectedEntityTypes # <<>>
  /\ \E i \in 1..Len(selectedFields) : selectedFields[i].value # <<>>

StatCount ==
  Cardinality({ <<i, j>> \in (1..Len(aggregateStats)) \X (1..MaxStats) :
                  j <= Len(aggregateStats[i].value) })

\* C13: generation on a valid configuration with stats completes, and the
\* artifact holds one fetch unit and one render unit for each stat.
C13_OneUnitPerStat ==
  (GenerateClickedLast /\ ValidSelection /\ StatCount > 0) =>
    /\ lastClick.outcome = "ok"
    /\ Len(generatedHTML.aggregateQueries) = StatCount
    /\ Len(generatedHTML.aggregateRenderer) = StatCount

\* C14: the artifact generated from a configuration with stats has a main
\* that awaits fetchAllAggregates, which issues every aggregate fetch and
\* renders the stats once all of them have completed.
C14_MainAwaitsAggregates ==
  (GenerateClickedLast /\ ValidSelection /\ StatCount > 0) =>
    /\ generatedHTML.awaitsAggregates
    /\ generatedHTML.aggregateQueries # <<>>

\* the characters of the label that must not reach the artifact as they are
LiveMarkup == {"<", ">", "\"", "'"}

FetchFailures == {"network", "errors"}

RunsIn(state) == {r \in 1..Len(runs) : runs[r].state = state}

CarriedTokens(message) == {message.data.token, message.config.token} \ {""}
CarriedEndPoints(message) == {message.data.endPoint, message.config.endPoint} \ {""}

\* C16: there is no fetch before a run was started, and a step starts a run
\* and its first fetch only on a message of type apiConfig that carries a
\* non-empty token and a non-empty end point, which the fetch then uses.
C16_NoCallBeforeApiConfig ==
  /\ [](runs = <<>> => fetchCalls = <<>>)
  /\ [][Len(runs') > Len(runs) =>
          /\ lastMessage'.type = "apiConfig"
          /\ fetchCalls'[Len(fetchCalls')].token \in CarriedTokens(lastMessage')
          /\ fetchCalls'[Len(fetchCalls')].url \in CarriedEndPoints(lastMessage')]_vars
  /\ [][Len(fetchCalls') > Len(fetchCalls) => runs' # <<>>]_vars

\* a message of another type with a token and an end point arrived and no
\* fetch was started
C16_Witness ==
  /\ lastMessage.type = "other"
  /\ lastMessage.data = HubConfig("t", "u")
  /\ runs = <<>>
  /\ fetchCalls = <<>>

\* ---- undo, redo and files
StatChanges == {"addAggregateStat", "removeAggregateStat", "updateAggregateStat"}

\* undo was invoked right after a change of one of the kinds
UndoneJust(kinds) == lastChange.kind = "undo" /\ lastChange.of \in kinds

\* C18: right after undo was invoked on a single change of the selection, of
\* the fields or of a relationship, the selected types, the relationships,
\* the selected fields and the layout are what they were before that change.
C18_UndoRevertsLastChange ==
  UndoneJust(Changes \ StatChanges) =>
    /\ selectedEntityTypes = lastChange.before.selectedEntityTypes
    /\ relationships = lastChange.before.relationships
    /\ selectedFields = lastChange.before.selectedFields
    /\ relationshipLayout = lastChange.before.relationshipLayout

\* C20: right after undo was invoked on an added, removed or updated stat
\* the stats are what they were before it, and right after the redo that
\* follows they are what they were after it.
C20_UndoRedoRestoresStats ==
  /\ UndoneJust(StatChanges) => aggregateStats = lastChange.before.aggregateStats
  /\ (lastChange.kind = "redo" /\ lastChange.of \in StatChanges) =>
       aggregateStats = lastChange.after.aggregateStats

\* C19: right after a load of the file saveBuilderConfig wrote, the setup
\* (selection, relationships, fields, layout, stats, query override) is the
\* one that was saved.
C19_SaveLoadRoundTrip ==
  lastChange.kind = "load" => Setup = savedSetup

\* ---- the join set by hand
\* the setup right after the last edit of relationship 0, while the selection
\* is the one the edit was made on
ManualStands ==
  /\ lastChange.kind = "updateRelationship"
  /\ selectedEntityTypes = lastChange.after.selectedEntityTypes

\* C21: after the user chose both fields of chain position 0 the relationship
\* there links selectedEntityTypes[0] to selectedEntityTypes[1], and as long
\* as the selection and its order are the ones of that edit the relationship
\* at position 0 is still the pair the user chose.
C21_ManualPairStays ==
  ManualStands =>
    /\ lastChange.after.relationships[1].from = selectedEntityTypes[1]
    /\ lastChange.after.relationships[1].to = selectedEntityTypes[2]
    /\ Len(relationships) >= 1
    /\ relationships[1] = lastChange.after.relationships[1]

\* ---- the join key of auto-detection
FirstWith(commonFields, Hint(_)) == SelectSeq(commonFields, LAMBDA f : Hint(f.name))

\* the common field by ordered preference: one with "id", else one with
\* "guid", else one with "name", else the first
ByPreference(commonFields) ==
  IF FirstWith(commonFields, IncludesId) # <<>>
    THEN FirstWith(commonFields, IncludesId)[1]
  ELSE IF FirstWith(commonFields, IncludesGuid) # <<>>
    THEN FirstWith(commonFields, IncludesGuid)[1]
  ELSE IF FirstWith(commonFields, IncludesName) # <<>>
    THEN FirstWith(commonFields, IncludesName)[1]
  ELSE commonFields[1]

JoinsOn(rel, meta) == rel.fromField = meta.name /\ rel.toField = meta.name

\* C22: when buildRelationships has run, every relationship it detected joins
\* its two types on their common field of ordered preference (id, then guid,
\* then name, then the first common field), and no relationship exists for
\* an adjacent pair without a common field name.
C22_KeyByOrderedPreference ==
  [][ RanBuildRelationships =>
        /\ \A k \in 1..Len(relationships') :
             relationships'[k] # EmptySlot =>
               JoinsOn(relationships'[k],
                       ByPreference(getCommonFields(relationships'[k].from,
                                                    relationships'[k].to)))
        /\ \A i \in 1..(Len(selectedEntityTypes') - 1) :
             getCommonFields(selectedEntityTypes'[i], selectedEntityTypes'[i + 1]) = <<>>
               => \A k \in 1..Len(relationships') :
                    \/ relationships'[k].from # selectedEntityTypes'[i]
                    \/ relationships'[k].to # selectedEntityTypes'[i + 1] ]_vars

\* ---- the override text without headings
WholeTextQuery == OverrideQuery(Trim(customQueryOverride))

\* C23: in an artifact compiled with a non-empty override text, with one
\* selected entity type the whole text is the query of that type, and with
\* two or more selected entity types and no heading line in the text the
\* whole text is the query of every selected entity type.
C23_WholeTextUsed ==
  (Compiled /\ Trim(customQueryOverride) # <<>>) =>
    /\ Len(selectedEntityTypes) = 1 =>
         generatedHTML.queries[1].query = WholeTextQuery
    /\ (Len(selectedEntityTypes) >= 2 /\ HeadingLines(customQueryOverride) = {}) =>
         \A i \in 1..Len(generatedHTML.queries) :
           generatedHTML.queries[i].query = WholeTextQuery

\* ---- the history and the schema cache
\* the step pushed a snapshot: the stack changed and was not cleared
SavedSnapshot == history'.stack # history.stack /\ history'.stack # <<>>

\* C24: the history holds at most UNDO_MAX_SIZE snapshots, its pointer is
\* between -1 and the last index of the stack, and right after every save
\* the pointer is on the last snapshot.
C24_HistoryWellFormed ==
  /\ [](/\ Len(history.stack) <= UNDO_MAX_SIZE
        /\ history.pointer >= -1
        /\ history.pointer <= Len(history.stack) - 1)
  /\ [][SavedSnapshot => history'.pointer = Len(history'.stack) - 1]_vars

\* the history is full, and its oldest snapshot is no longer the first one
\* saved after the schema was loaded
C24_Witness ==
  /\ Len(history.stack) = UNDO_MAX_SIZE
  /\ history.pointer = UNDO_MAX_SIZE - 1
  /\ schema = ModelSchema
  /\ history.stack[1].selectedEntityTypes = <<>>

\* C29: for every entity type name, schemaCache.getEntity gives the
\* descriptor of that name in the schema loaded last, or nothing when that
\* schema has no such entity type.
C29_CacheFollowsSchema ==
  \A name \in Types : getEntity(entityMap, name) = FindEntity(schema, name)

\* ---- the ids of the stats
\* C25: no two configured stats carry the same id.
C25_StatIdsUnique ==
  \A i, j \in 1..Len(AllStats(aggregateStats)) :
    AllStats(aggregateStats)[i].stat.id = AllStats(aggregateStats)[j].stat.id => i = j

\* ---- deselecting an entity type
\* a step that takes entity type t out of the selection
Deselects(t) ==
  t \in Range(selectedEntityTypes) /\ t \notin Range(selectedEntityTypes')

\* C26: a step that deselects an entity type takes exactly that type out of
\* selectedEntityTypes, deletes its selected fields and its layout position,
\* and leaves the selected fields of every other type and all aggregate
\* stats as they were.
C26_DeselectFrame ==
  [][\A t \in Types :
       Deselects(t) =>
         /\ selectedEntityTypes' =
              SelectSeq(selectedEntityTypes, LAMBDA e : e # t)
         /\ ~ObjHas(selectedFields', t)
         /\ relationshipLayout'[t] = NoPos
         /\ \A u \in Types \ {t} :
              /\ ObjHas(selectedFields', u) <=> ObjHas(selectedFields, u)
              /\ ObjHas(selectedFields, u) =>
                   ObjGet(selectedFields', u) = ObjGet(selectedFields, u)
         /\ aggregateStats' = aggregateStats]_vars

\* A was deselected by the last saved change while it had a stat and B had a
\* selected field: the stat and the field are still there
C26_Witness ==
  /\ history.pointer >= 1
  /\ "A" \in Range(history.stack[history.pointer].selectedEntityTypes)
  /\ history.stack[history.pointer + 1].selectedEntityTypes = selectedEntityTypes
  /\ selectedEntityTypes = << "B" >>
  /\ ~ObjHas(selectedFields, "A")
  /\ relationshipLayout["A"] = NoPos
  /\ Len(FieldsOf(selectedFields, "B")) > 0
  /\ Len(StatsOf(aggregateStats, "A")) > 0

\* ---- the cache of the parsed override
\* what getQueryOverrideForEntity returns for an entity type in this state
CachedOverrideFor(entityType) ==
  getQueryOverrideForEntity(
    getParsedOverrideMap(customQueryOverride, cachedOverrideValue,
                         cachedOverrideMap, selectedEntityTypes).map,
    entityType)

\* C28: for every entity type, getQueryOverrideForEntity returns what a fresh
\* parse of the current override text against the current selection gives.
C28_OverrideCacheCoherent ==
  \A e \in Types :
    CachedOverrideFor(e) =
      getQueryOverrideForEntity(
        parseOverrideString(customQueryOverride, selectedEntityTypes), e)

\* ---- generation while the rebuild is pending
\* C27: after a click on Generate that compiled the renderer path, every
\* relationship of the embedded configuration has its from and its to among
\* the selected entity types, and there are fewer relationships than selected
\* entity types.
C27_EmbeddedRelationshipsSelected ==
  (Compiled /\ generatedHTML.path = "multi") =>
    /\ \A i \in 1..Len(generatedHTML.config.relationships) :
         generatedHTML.config.relationships[i] # EmptySlot =>
           /\ generatedHTML.config.relationships[i].from \in Range(selectedEntityTypes)
           /\ generatedHTML.config.relationships[i].to \in Range(selectedEntityTypes)
    /\ Len(generatedHTML.config.relationships) < Len(selectedEntityTypes)

\* ---- the trees of an emitted configuration
\* the node and every node below it carry the entity type of their depth and
\* a record of that entity type
RECURSIVE NodeOfItsType(_, _)
NodeOfItsType(node, depth) ==
  /\ node.entityType = TypeAt(rEntityTypes, depth)
  /\ node.entity \in Range(DataOf(rEntityData, TypeAt(rEntityTypes, depth)))
  /\ \A i \in 1..Len(node.children) : NodeOfItsType(node.children[i], depth + 1)

\* C30: in the tree buildNodes builds from the configuration of a generated
\* report, a node at depth d has entityType = entityTypes[d] and its record is
\* one of entityData[entityTypes[d]].
C30_NodesOfTheirType ==
  rPhase = "built" => \A i \in 1..Len(rNodes) : NodeOfItsType(rNodes[i], 0)

=============================================================================
